---- MODULE Spec2Model ----
(***************************************************************************)
(* Model of the DH5 Modbus drivers.                                        *)
(*                                                                         *)
(*   - src/docs/dh5.py        early-revision driver: hand-written RTU      *)
(*                            frame codec (_calculate_crc, _build_request, *)
(*                            _parse_response)                             *)
(*   - src/dh5_api/dh5_api.py later-revision driver: session on top of a   *)
(*                            pymodbus serial client                       *)
(*                                                                         *)
(* Seven specifications share the variables: SpecCodec applies the codec,  *)
(* the register packing, the position clamp and the register computations *)
(* once to drawn inputs; Spec is the session under send_modbus_command     *)
(* with the device answering late; SpecOps is the session under its public *)
(* operations; SpecCalibrate is calibration alone, its polling loop fair;  *)
(* SpecThreads adds a second caller of set_all_positions during            *)
(* calibration; SpecScope is the session used as a context manager;        *)
(* SpecEarly is the early-revision driver's session with the loops of      *)
(* set_speed and set_force.                                                *)
(*                                                                         *)
(* Python values that cross a function boundary are modelled as records    *)
(* [t, i, l, s]: t is the Python type ("none", "int", "list", "bytes",     *)
(* "str"), or "raise" for a call that ended by raising; i the integer, l   *)
(* the list or byte string, s the string or the exception's class.         *)
(***************************************************************************)
EXTENDS Integers, Sequences, FiniteSets, TLC

VARIABLES
    fn,             \* codec: the function applied last ("none" before any)
    inp,            \* codec: the arguments it was applied to
    out,            \* codec: what it returned or raised
    client,         \* session: self.client ("none"; "open": connected; "closed":
                    \* a client whose port is not open)
    max_positions,  \* session: self.max_positions
    op,             \* session: the last call, its arguments and what the bus did
    events,         \* session: transport events of that call, in order
    result,         \* session: what that call returned
    wire,           \* transport: "quiet", "outstanding" (a request was written
                    \* and the device has not answered it), "unread" (bytes
                    \* wait in the receive buffer)
    pc              \* session: "idle"; "polling" inside calibrate_max_positions;
                    \* "scope" in the body of a with statement on the session,
                    \* "leaving" when an exception is leaving that body;
                    \* "looping", "checking" in the loop of the early driver's
                    \* set_speed and set_force

vars == <<fn, inp, out, client, max_positions, op, events, result, wire, pc>>
codecVars == <<fn, inp, out>>
sessionVars == <<client, max_positions, op, events, result, wire, pc>>

---------------------------------------------------------------------------
(* Bounds of the model.                                                    *)

MaxCrcLen == 3      \* longest byte string drawn from SampleBytes for the checksum
MaxRegs == 3        \* longest register list in a frame
MaxRespRegs == 3    \* longest register list the bus hands back to the session

SampleBytes == {0, 1, 128, 255}
SampleRegs == {1, 560, 65535}
AllBytes == 0..255

---------------------------------------------------------------------------
(* Python values and outcomes.                                             *)

PyNone == [t |-> "none", i |-> 0, l |-> <<>>, s |-> ""]
PyInt(n) == [t |-> "int", i |-> n, l |-> <<>>, s |-> ""]
PyList(xs) == [t |-> "list", i |-> 0, l |-> xs, s |-> ""]
PyBytes(bs) == [t |-> "bytes", i |-> 0, l |-> bs, s |-> ""]
PyStr(str) == [t |-> "str", i |-> 0, l |-> <<>>, s |-> str]
Raise(cls) == [t |-> "raise", i |-> 0, l |-> <<>>, s |-> cls]

\* Python truthiness, as `x or 1` and `x if x else y` use it.
Truthy(v) ==
    CASE v.t = "none" -> FALSE
      [] v.t = "int" -> v.i # 0
      [] v.t = "list" -> v.l # <<>>
      [] v.t = "bytes" -> v.l # <<>>
      [] v.t = "str" -> v.s # ""
      [] OTHER -> TRUE

\* All sequences over S of length lo..hi.
SeqsOf(S, lo, hi) == UNION {[1..n -> S] : n \in lo..hi}

RECURSIVE Pow2(_)
Pow2(n) == IF n = 0 THEN 1 ELSE 2 * Pow2(n - 1)

\* Python's a ^ b on non-negative integers.
RECURSIVE Xor(_, _)
Xor(a, b) ==
    IF a = 0 THEN b
    ELSE IF b = 0 THEN a
    ELSE (((a % 2) + (b % 2)) % 2) + 2 * Xor(a \div 2, b \div 2)

\* struct.pack(">H", n) and struct.pack("<H", n), for n in 0..65535.
IsU16(v) == v.t = "int" /\ v.i \in 0..65535
pack_BE_H(n) == <<n \div 256, n % 256>>
pack_LE_H(n) == <<n % 256, n \div 256>>

RECURSIVE pack_BE_all(_)
pack_BE_all(xs) == IF xs = <<>> THEN <<>> ELSE pack_BE_H(Head(xs)) \o pack_BE_all(Tail(xs))

---------------------------------------------------------------------------
(* src/docs/dh5.py: result codes.                                          *)

SUCCESS == 0
ERROR_CONNECTION_FAILED == 1
ERROR_INVALID_RESPONSE == 2
ERROR_CRC_CHECK_FAILED == 3
ERROR_INVALID_COMMAND == 4

READ_HOLDING_REGISTERS == 3
WRITE_SINGLE_REGISTER == 6
WRITE_MULTIPLE_REGISTERS == 16

CRC_INIT == 65535       \* 0xFFFF
CRC_POLY == 40961       \* 0xA001

---------------------------------------------------------------------------
(* src/docs/dh5.py: _calculate_crc.                                        *)

\* A variant of the inner loop that XORs the polynomial before shifting.
RECURSIVE crc_shift_xor_first(_, _)
crc_shift_xor_first(crc, n) ==
    IF n = 0 THEN crc
    ELSE IF (crc % 2) = 1 THEN crc_shift_xor_first(Xor(crc, CRC_POLY) \div 2, n - 1)
    ELSE crc_shift_xor_first(crc \div 2, n - 1)

\* The inner loop: `for _ in range(8)`, n iterations left.
RECURSIVE crc_shift(_, _)
crc_shift(crc, n) ==
    IF n = 0 THEN crc
    ELSE IF (crc % 2) = 1 THEN crc_shift(Xor(crc \div 2, CRC_POLY), n - 1)
    ELSE crc_shift(crc \div 2, n - 1)

\* The outer loop: `for pos in data`, from accumulator crc. The accumulator
\* is a non-negative integer; the guard has it evaluated at each iteration.
RECURSIVE crc_loop(_, _)
crc_loop(crc, data) ==
    IF data = <<>> THEN crc
    ELSE LET next == crc_shift(Xor(crc, Head(data)), 8)
         IN  CASE next >= 0 -> crc_loop(next, Tail(data))

_calculate_crc(data) == crc_loop(CRC_INIT, data)

---------------------------------------------------------------------------
(* src/docs/dh5.py: _build_request.                                        *)

\* The payload after the register address, or the exception struct.pack,
\* bytearray.append or the iteration over values raises.
build_payload(function_code, data_length, value, values) ==
    IF function_code = READ_HOLDING_REGISTERS THEN
        IF IsU16(data_length) THEN PyBytes(pack_BE_H(data_length.i))
        ELSE Raise("struct.error")
    ELSE IF function_code = WRITE_SINGLE_REGISTER THEN
        IF IsU16(value) THEN PyBytes(pack_BE_H(value.i))
        ELSE Raise("struct.error")
    ELSE IF function_code = WRITE_MULTIPLE_REGISTERS THEN
        LET register_count ==
                IF Truthy(data_length) THEN data_length
                ELSE IF values.t = "list" THEN PyInt(Len(values.l))
                ELSE Raise("TypeError")
        IN  IF register_count.t = "raise" THEN register_count
            ELSE IF ~IsU16(register_count) THEN Raise("struct.error")
            ELSE IF register_count.i * 2 > 255 THEN Raise("ValueError")
            ELSE IF values.t # "list" THEN Raise("TypeError")
            ELSE IF \E k \in 1..Len(values.l) : values.l[k] \notin 0..65535
                 THEN Raise("struct.error")
            ELSE PyBytes(pack_BE_H(register_count.i) \o <<register_count.i * 2>>
                         \o pack_BE_all(values.l))
    ELSE PyBytes(<<>>)

\* A variant that appends the checksum high byte first.
append_crc_big_endian(request) == request \o pack_BE_H(_calculate_crc(request))

\* The two checksum bytes _build_request appends: struct.pack("<H", crc).
append_crc(request) == request \o pack_LE_H(_calculate_crc(request))

_build_request(modbus_id, function_code, register_address, data_length, value, values) ==
    IF modbus_id \notin 0..255 \/ function_code \notin 0..255 THEN Raise("ValueError")
    ELSE IF register_address \notin 0..65535 THEN Raise("struct.error")
    ELSE LET payload == build_payload(function_code, data_length, value, values)
         IN  IF payload.t = "raise" THEN payload
             ELSE PyBytes(append_crc(<<modbus_id, function_code>>
                                     \o pack_BE_H(register_address) \o payload.l))

---------------------------------------------------------------------------
(* src/docs/dh5.py: _parse_response.                                       *)

\* A variant that keeps the byte-count prefix's place: it reads registers
\* low byte first.
unpack_registers_little_endian(data) ==
    IF (Len(data) % 2) = 1 THEN Raise("struct.error")
    ELSE PyList([k \in 1..(Len(data) \div 2) |-> data[2 * k] * 256 + data[2 * k - 1]])

\* struct.unpack(">H", ...) over data[i : i + 2] for i in range(0, len(data), 2).
unpack_registers(data) ==
    IF (Len(data) % 2) = 1 THEN Raise("struct.error")
    ELSE PyList([k \in 1..(Len(data) \div 2) |-> data[2 * k - 1] * 256 + data[2 * k]])

\* _parse_response after its length check (lines 117..134).
parse_frame(response, function_code) ==
    LET n == Len(response)
        func_code == response[2]
        payload == SubSeq(response, 3, n - 2)
        crc_low == response[n - 1]
        crc_high == response[n]
        crc_received == crc_high * 256 + crc_low
        crc_calculated == _calculate_crc(SubSeq(response, 1, n - 2))
    IN  IF func_code # function_code THEN PyInt(ERROR_INVALID_RESPONSE)
        ELSE IF crc_received # crc_calculated THEN PyInt(ERROR_CRC_CHECK_FAILED)
        ELSE IF function_code = READ_HOLDING_REGISTERS
             THEN unpack_registers(Tail(payload))
        ELSE IF function_code \in {WRITE_SINGLE_REGISTER, WRITE_MULTIPLE_REGISTERS}
             THEN PyInt(SUCCESS)
        ELSE PyNone

\* A variant whose length check lets a 4-byte response through.
_parse_response_min4(response, function_code) ==
    IF Len(response) < 4 THEN PyInt(ERROR_INVALID_RESPONSE)
    ELSE parse_frame(response, function_code)

_parse_response(response, function_code) ==
    IF Len(response) < 5 THEN PyInt(ERROR_INVALID_RESPONSE)
    ELSE parse_frame(response, function_code)

---------------------------------------------------------------------------
(* The wire protocol's reference checksum (CRC-16/MODBUS), stated on bit    *)
(* sets rather than on integers: a 16-bit word is the set of its set bits. *)

BitsOf(n) == {k \in 0..15 : ((n \div Pow2(k)) % 2) = 1}

RECURSIVE ValueOf(_)
ValueOf(S) ==
    IF S = {} THEN 0
    ELSE LET k == CHOOSE x \in S : TRUE IN Pow2(k) + ValueOf(S \ {k})

SymDiff(A, B) == (A \ B) \cup (B \ A)

\* One of the 8 iterations: shift right, and XOR 0xA001 (bits 0, 13, 15)
\* when the bit shifted out was set.
RefShift(S) ==
    LET shifted == {k - 1 : k \in S \ {0}}
    IN  IF 0 \in S THEN SymDiff(shifted, {0, 13, 15}) ELSE shifted

RefByte(S, b) ==
    RefShift(RefShift(RefShift(RefShift(RefShift(RefShift(RefShift(RefShift(
        SymDiff(S, BitsOf(b))))))))))

RECURSIVE RefFold(_, _)
RefFold(S, data) ==
    IF data = <<>> THEN S
    ELSE LET next == RefByte(S, Head(data))
         IN  CASE next \subseteq 0..15 -> RefFold(next, Tail(data))

RefCrc16(data) == ValueOf(RefFold(0..15, data))

\* A frame as the device sends it: the body, then the reference checksum,
\* low byte first.
DeviceFrame(body) == body \o <<RefCrc16(body) % 256, RefCrc16(body) \div 256>>

---------------------------------------------------------------------------
(* The codec applied to inputs drawn from bounded sets.                    *)

DEFAULT_MODBUS_ID == 1

NoInp == [bytes |-> <<>>, function_code |-> 0, register_address |-> 0,
          data_length |-> PyNone, value |-> PyNone, values |-> PyNone,
          regs |-> <<>>, flips |-> {}, axis |-> 0, mode |-> 0,
          positions |-> <<>>, maxima |-> <<>>, name |-> ""]

\* Byte strings the checksum is applied to: every single byte, every string
\* over SampleBytes up to MaxCrcLen, and the request 01 03 00 00 00 01.
CrcInputs ==
    SeqsOf(SampleBytes, 0, MaxCrcLen) \cup {<<b>> : b \in AllBytes}
        \cup {<<1, 3, 0, 0, 0, 1>>}

SampleAddrs == {560, 1281, 65535}      \* 0x0230, 0x0501, 0xFFFF
RegLists == SeqsOf(SampleRegs, 0, MaxRegs)

\* The registers 10, 20, ..., 60 of the six-axis read at 0x0230.
SixRegisters == [k \in 1..6 |-> 10 * k]
ReadLists == RegLists \cup {SixRegisters}

\* data_length as a caller may pass it: omitted, zero, or a count.
DataLengths == {PyNone} \cup {PyInt(n) : n \in (0..(MaxRegs + 1)) \cup {125, 126, 128}}

\* A response the device may send, before its checksum: a read response,
\* a write echo, an exception response, a read response with an odd payload.
ReadBody(regs) == <<DEFAULT_MODBUS_ID, READ_HOLDING_REGISTERS, 2 * Len(regs)>> \o pack_BE_all(regs)
OtherBodies ==
    { <<DEFAULT_MODBUS_ID, WRITE_SINGLE_REGISTER, 5, 1, 0, 1>>,
      <<DEFAULT_MODBUS_ID, WRITE_MULTIPLE_REGISTERS, 1, 1, 0, 6>>,
      <<DEFAULT_MODBUS_ID, 131, 2>>,        \* 0x83: exception to a read
      <<DEFAULT_MODBUS_ID, 134, 2>>,        \* 0x86: exception to a single write
      <<DEFAULT_MODBUS_ID, 144, 4>>,        \* 0x90: exception to a multiple write
      <<DEFAULT_MODBUS_ID, READ_HOLDING_REGISTERS, 1, 7>> }

\* Byte b with bit k (0 = least significant) inverted.
FlipBit(b, k) == IF ((b \div Pow2(k)) % 2) = 1 THEN b - Pow2(k) ELSE b + Pow2(k)

\* The frame with bit k of its last two bytes inverted: bits 0..7 are the
\* second-to-last byte's, bits 8..15 the last byte's.
FlipTrailer(frame, k) ==
    LET n == Len(frame)
    IN  IF k < 8 THEN [frame EXCEPT ![n - 1] = FlipBit(frame[n - 1], k)]
        ELSE [frame EXCEPT ![n] = FlipBit(frame[n], k - 8)]

Corrupt(frame, flips) ==
    IF flips = {} THEN frame ELSE FlipTrailer(frame, CHOOSE k \in flips : TRUE)

FlipChoices == {{}} \cup {{k} : k \in 0..15}
ExpectedCodes == {READ_HOLDING_REGISTERS, WRITE_SINGLE_REGISTER, WRITE_MULTIPLE_REGISTERS}

\* Frames shorter than the 5-byte minimum: every proper prefix, up to 4
\* bytes, of a well-formed frame (the empty response included).
ShortResponses ==
    {SubSeq(DeviceFrame(b), 1, k) : b \in OtherBodies \cup {ReadBody(<<560>>)}, k \in 0..4}

\* The inputs of one codec call, drawn before the call.
CrcCalls == {[NoInp EXCEPT !.bytes = data] : data \in CrcInputs}

BuildCalls ==
    {[NoInp EXCEPT !.function_code = READ_HOLDING_REGISTERS,
                   !.register_address = a, !.data_length = dl] :
        a \in SampleAddrs, dl \in DataLengths}
    \cup
    {[NoInp EXCEPT !.function_code = WRITE_SINGLE_REGISTER,
                   !.register_address = a, !.value = v] :
        a \in SampleAddrs, v \in {PyNone} \cup {PyInt(x) : x \in SampleRegs \cup {65536}}}
    \cup
    {[NoInp EXCEPT !.function_code = WRITE_MULTIPLE_REGISTERS,
                   !.register_address = a, !.data_length = dl, !.values = vs] :
        a \in SampleAddrs, dl \in DataLengths,
        vs \in {PyNone} \cup {PyList(xs) : xs \in RegLists}}

\* _parse_response on a read response carrying regs, on another response
\* (intact or with one bit of its checksum bytes inverted), on a short one.
ParseCalls ==
    {[NoInp EXCEPT !.bytes = Corrupt(DeviceFrame(ReadBody(regs)), flips),
                   !.function_code = fc, !.regs = regs, !.flips = flips] :
        regs \in ReadLists, flips \in FlipChoices, fc \in ExpectedCodes}
    \cup
    {[NoInp EXCEPT !.bytes = Corrupt(DeviceFrame(body), flips),
                   !.function_code = fc, !.flips = flips] :
        body \in OtherBodies, flips \in FlipChoices, fc \in ExpectedCodes}
    \cup
    {[NoInp EXCEPT !.bytes = response, !.function_code = fc] :
        response \in ShortResponses, fc \in ExpectedCodes}

Pending == [t |-> "pending", i |-> 0, l |-> <<>>, s |-> ""]

CalcCrc ==
    /\ fn = "crc" /\ out = Pending
    /\ out' = PyInt(_calculate_crc(inp.bytes))
    /\ UNCHANGED <<fn, inp, sessionVars>>

BuildRequest ==
    /\ fn = "build" /\ out = Pending
    /\ out' = _build_request(DEFAULT_MODBUS_ID, inp.function_code, inp.register_address,
                            inp.data_length, inp.value, inp.values)
    /\ UNCHANGED <<fn, inp, sessionVars>>

ParseResponse ==
    /\ fn = "parse" /\ out = Pending
    /\ out' = _parse_response(inp.bytes, inp.function_code)
    /\ UNCHANGED <<fn, inp, sessionVars>>

---------------------------------------------------------------------------
(* src/dh5_api/dh5_api.py: the session over a pymodbus serial client.      *)

AXIS_COUNT == 6
DEFAULT_MAX_POSITION == 500
AXIS_CURRENT_POSITION_BASE == 519       \* 0x0207
SENTINEL_FUNCTION_CODE == 255           \* 0xFF

\* What the client hands back: a response PDU with its registers, an
\* ExceptionResponse, or an exception raised by the call.
Response(function_code, registers) ==
    [k |-> "response", function_code |-> function_code, exception_code |-> 0,
     registers |-> registers, cls |-> ""]
ExceptionResponse(function_code, exception_code) ==
    [k |-> "exception", function_code |-> function_code,
     exception_code |-> exception_code, registers |-> <<>>, cls |-> ""]
Raised(cls) ==
    [k |-> "raise", function_code |-> 0, exception_code |-> 0,
     registers |-> <<>>, cls |-> cls]
NoReply ==
    [k |-> "none", function_code |-> 0, exception_code |-> 0,
     registers |-> <<>>, cls |-> ""]

\* Transport events of one call.
Drain == [e |-> "drain", function_code |-> 0, address |-> 0, count |-> 0, values |-> <<>>]
Send(function_code, address, count, values) ==
    [e |-> "send", function_code |-> function_code, address |-> address,
     count |-> count, values |-> values]

\* Registers a device may answer a read with: the first n of 10, 20, 30, ...
DeviceRegisters(n) == [k \in 1..n |-> 10 * k]
ExceptionCodes == {2, 4}        \* illegal data address, device failure

\* The bus during one client call: whether the request went out, whether
\* the client wrote it a second time after a response timeout, and what the
\* call returned or raised.
NoCall == [sent |-> FALSE, resent |-> FALSE, reply |-> NoReply]

\* client.read_holding_registers(address, count=count): the client may fail
\* before sending, and may refuse a count outside 1..125 itself; once the
\* request is out, the device answers with any number of registers or with
\* an exception response, or the read times out. The client is constructed
\* without a retries argument (lines 126..132), so on a response timeout it
\* writes the request again before it answers or gives up.
ReadOutcomes(count) ==
    {[sent |-> FALSE, resent |-> FALSE, reply |-> Raised("ConnectionException")]}
    \cup (IF count \in 1..125 THEN {}
          ELSE {[sent |-> FALSE, resent |-> FALSE, reply |-> Raised("ValueError")]})
    \cup {[sent |-> TRUE, resent |-> FALSE, reply |-> r] :
            r \in {Response(READ_HOLDING_REGISTERS, DeviceRegisters(n)) : n \in 0..MaxRespRegs}
                  \cup {ExceptionResponse(fc, c) :
                            fc \in {READ_HOLDING_REGISTERS + 128, SENTINEL_FUNCTION_CODE},
                            c \in ExceptionCodes}}
    \cup {[sent |-> TRUE, resent |-> TRUE, reply |-> r] :
            r \in {Response(READ_HOLDING_REGISTERS, DeviceRegisters(1)),
                   Raised("ModbusIOException")}}

\* client.write_register / write_registers(..., no_response_expected=True):
\* the client returns ExceptionResponse(0xFF) without waiting; an echo or a
\* device exception is what a client that did wait would hand back.
WriteOutcomes(function_code) ==
    {[sent |-> FALSE, resent |-> FALSE, reply |-> Raised("ConnectionException")]}
    \cup {[sent |-> TRUE, resent |-> FALSE, reply |-> r] :
            r \in {ExceptionResponse(SENTINEL_FUNCTION_CODE, 0),
                   Response(function_code, <<>>)}
                  \cup {ExceptionResponse(function_code + 128, c) : c \in ExceptionCodes}}

\* A variant of _clear_recv_buffer that reads nothing.
_clear_recv_buffer_skipped(c) == <<>>

\* _clear_recv_buffer: recv() of everything waiting, when there is a client.
_clear_recv_buffer(c) == IF c # "none" THEN <<Drain>> ELSE <<>>

\* count=data_length or 1
read_count(data_length) == IF Truthy(data_length) THEN data_length.i ELSE 1

\* Whether _execute_modbus_function reaches a client call, and which.
Outcomes(function_code, data, data_length) ==
    IF function_code = READ_HOLDING_REGISTERS THEN ReadOutcomes(read_count(data_length))
    ELSE IF function_code = WRITE_SINGLE_REGISTER /\ data.t = "int"
         THEN WriteOutcomes(function_code)
    ELSE IF function_code = WRITE_MULTIPLE_REGISTERS /\ data.t \in {"int", "list"}
         THEN WriteOutcomes(function_code)
    ELSE {NoCall}

\* A variant of _execute_modbus_function that clears the receive buffer
\* before it looks at the function code and the data.
_execute_modbus_function_drain_first(function_code, register_address, data, data_length, bus) ==
    LET sends(req) == IF ~bus.sent THEN <<>>
                      ELSE IF bus.resent THEN <<req, req>>
                      ELSE <<req>>
        x == IF function_code = READ_HOLDING_REGISTERS THEN
                 [events |-> sends(Send(function_code, register_address,
                                        read_count(data_length), <<>>)),
                  response |-> bus.reply]
             ELSE IF function_code = WRITE_SINGLE_REGISTER THEN
                 IF data.t = "none" \/ data.t = "list"
                 THEN [events |-> <<>>, response |-> Raised("ValueError")]
                 ELSE [events |-> sends(Send(function_code, register_address, 1, <<data.i>>)),
                       response |-> bus.reply]
             ELSE IF function_code = WRITE_MULTIPLE_REGISTERS THEN
                 IF data.t = "none"
                 THEN [events |-> <<>>, response |-> Raised("ValueError")]
                 ELSE LET values == IF data.t = "int" THEN <<data.i>> ELSE data.l
                      IN  [events |-> sends(Send(function_code, register_address,
                                                 Len(values), values)),
                           response |-> bus.reply]
             ELSE [events |-> <<>>, response |-> Raised("ValueError")]
    IN  [events |-> _clear_recv_buffer(client) \o x.events, response |-> x.response]

\* _execute_modbus_function: the events on the transport and the response
\* (or the exception raised), given what the bus does.
_execute_modbus_function(function_code, register_address, data, data_length, bus) ==
    LET sends(req) == _clear_recv_buffer(client)
                      \o (IF ~bus.sent THEN <<>>
                          ELSE IF bus.resent THEN <<req, req>>
                          ELSE <<req>>)
    IN  IF function_code = READ_HOLDING_REGISTERS THEN
            [events |-> sends(Send(function_code, register_address,
                                   read_count(data_length), <<>>)),
             response |-> bus.reply]
        ELSE IF function_code = WRITE_SINGLE_REGISTER THEN
            IF data.t = "none" \/ data.t = "list"
            THEN [events |-> <<>>, response |-> Raised("ValueError")]
            ELSE [events |-> sends(Send(function_code, register_address, 1, <<data.i>>)),
                  response |-> bus.reply]
        ELSE IF function_code = WRITE_MULTIPLE_REGISTERS THEN
            IF data.t = "none"
            THEN [events |-> <<>>, response |-> Raised("ValueError")]
            ELSE LET values == IF data.t = "int" THEN <<data.i>> ELSE data.l
                 IN  [events |-> sends(Send(function_code, register_address,
                                            Len(values), values)),
                      response |-> bus.reply]
        ELSE [events |-> <<>>, response |-> Raised("ValueError")]

\* _parse_response of the later driver, on a PDU.
api_parse_response(response, function_code) ==
    IF response.k = "exception" /\ response.function_code # SENTINEL_FUNCTION_CODE
    THEN PyInt(ERROR_INVALID_RESPONSE)
    ELSE IF function_code = READ_HOLDING_REGISTERS THEN PyList(response.registers)
    ELSE IF function_code \in {WRITE_SINGLE_REGISTER, WRITE_MULTIPLE_REGISTERS}
         THEN PyInt(SUCCESS)
    ELSE PyInt(SUCCESS)

is_connected == client = "open"

\* send_modbus_command: [events, result].
api_send_modbus_command(function_code, register_address, data, data_length, bus) ==
    IF ~is_connected THEN [events |-> <<>>, result |-> PyInt(ERROR_CONNECTION_FAILED)]
    ELSE LET x == _execute_modbus_function(function_code, register_address,
                                           data, data_length, bus)
         IN  [events |-> x.events,
              result |-> IF x.response.k = "raise" THEN PyInt(ERROR_INVALID_RESPONSE)
                         ELSE api_parse_response(x.response, function_code)]

\* The transport after a call that began with the transport in state w and
\* produced the events ev: a drain empties the receive buffer; a read waits
\* for its response or its timeout; a write (no_response_expected=True)
\* returns as soon as the request is written.
wire_after(w, ev) ==
    LET sends == {k \in 1..Len(ev) : ev[k].e = "send"}
    IN  IF sends # {}
        THEN IF ev[Len(ev)].function_code = READ_HOLDING_REGISTERS
             THEN "quiet" ELSE "outstanding"
        ELSE IF ev # <<>> /\ w = "unread" THEN "quiet"
        ELSE w

NoOp == [name |-> "none", connected |-> FALSE, function_code |-> 0,
         register_address |-> 0, data |-> PyNone, data_length |-> PyNone,
         bus |-> NoCall, axis |-> 0, arg |-> PyNone, wire |-> "quiet",
         poll |-> NoCall, read |-> NoCall, unclosed |-> FALSE]

FunctionCodes == {READ_HOLDING_REGISTERS, WRITE_SINGLE_REGISTER,
                  WRITE_MULTIPLE_REGISTERS, 4}
DataArgs == {PyNone, PyInt(1), PyList(<<1, 2>>)}
LengthArgs == {PyNone} \cup {PyInt(n) : n \in {0, 1, 2, 125, 126}}

InitSession ==
    /\ client = "none"
    /\ max_positions = [a \in 1..AXIS_COUNT |-> DEFAULT_MAX_POSITION]
    /\ op = NoOp
    /\ events = <<>>
    /\ result = PyNone
    /\ wire = "quiet"
    /\ pc = "idle"

\* open_connection: a new client replaces self.client and connect()
\* succeeds ("connected") or fails ("refused"); or the client's constructor
\* raises and self.client stays what it was ("raised"). The client that is
\* replaced is not closed: op.unclosed tells that its port was open.
open_connection ==
    \E how \in {"connected", "refused", "raised"} :
        /\ pc = "idle"
        /\ client' = CASE how = "connected" -> "open"
                        [] how = "refused" -> "closed"
                        [] how = "raised" -> client
        /\ op' = [NoOp EXCEPT !.name = "open_connection", !.connected = is_connected,
                                  !.unclosed = (how # "raised" /\ client = "open")]
        /\ events' = <<>>
        /\ result' = PyInt(IF how = "connected" THEN SUCCESS ELSE ERROR_CONNECTION_FAILED)
        /\ UNCHANGED <<max_positions, wire, pc, codecVars>>

close_connection ==
    /\ pc = "idle"
    /\ client' = "none"
    /\ op' = [NoOp EXCEPT !.name = "close_connection", !.connected = is_connected]
    /\ events' = <<>>
    /\ result' = PyInt(SUCCESS)
    /\ UNCHANGED <<max_positions, wire, pc, codecVars>>

\* The serial link drops: client.connected turns False.
ConnectionLost ==
    /\ client = "open"
    /\ client' = "closed"
    /\ UNCHANGED <<max_positions, op, events, result, wire, pc, codecVars>>

\* The device answers a request the session did not wait on: its reply
\* lands in the receive buffer.
DeviceReplies ==
    /\ wire = "outstanding"
    /\ wire' = "unread"
    /\ UNCHANGED <<client, max_positions, op, events, result, pc, codecVars>>

\* The response timeout of such a request passes without a reply.
ReplyWindowCloses ==
    /\ wire = "outstanding"
    /\ wire' = "quiet"
    /\ UNCHANGED <<client, max_positions, op, events, result, pc, codecVars>>

send_modbus_command ==
    \E function_code \in FunctionCodes, data \in DataArgs, data_length \in LengthArgs :
        \E bus \in (IF is_connected THEN Outcomes(function_code, data, data_length)
                    ELSE {NoCall}) :
            LET r == api_send_modbus_command(function_code, AXIS_CURRENT_POSITION_BASE,
                                             data, data_length, bus)
            IN  /\ pc = "idle"
                /\ op' = [NoOp EXCEPT !.name = "send_modbus_command",
                                      !.connected = is_connected,
                                      !.function_code = function_code,
                                      !.register_address = AXIS_CURRENT_POSITION_BASE,
                                      !.data = data, !.data_length = data_length,
                                      !.bus = bus, !.wire = wire]
                /\ events' = r.events
                /\ result' = r.result
                /\ wire' = wire_after(wire, r.events)
                /\ UNCHANGED <<client, max_positions, pc, codecVars>>

Init ==
    /\ fn = "none"
    /\ inp = NoInp
    /\ out = PyNone
    /\ InitSession

Next ==
    \/ open_connection
    \/ close_connection
    \/ ConnectionLost
    \/ DeviceReplies
    \/ ReplyWindowCloses
    \/ send_modbus_command

Spec == Init /\ [][Next]_vars

---------------------------------------------------------------------------
(* src/dh5_api/dh5_api.py: DH5Registers and the public operations.         *)

RETURN_TO_ZERO == 256               \* 0x0100
RETURN_TO_ZERO_STATUS == 512        \* 0x0200
SAVE_PARAM == 768                   \* 0x0300
UART_CONFIG == 770                  \* 0x0302
AXIS_POSITION_BASE == 257           \* 0x0101
AXIS_FORCE_BASE == 263              \* 0x0107
AXIS_SPEED_BASE == 269              \* 0x010D
AXIS_ACCELERATION_BASE == 275       \* 0x0113
AXIS_SPEED_STATUS_BASE == 525       \* 0x020D
AXIS_CURRENT_BASE == 531            \* 0x0213
RESET_FAULTS == 1281                \* 0x0501
RESTART_SYSTEM == 1283              \* 0x0503
AGING_TEST == 1284                  \* 0x0504
HISTORY_FAULTS == 2816              \* 0x0B00
HISTORY_FAULTS_LENGTH == 63         \* 0x3F
INIT_MODE_CLOSE == 1
INIT_MODE_OPEN == 2
INIT_MODE_FIND_STROKE == 3
INIT_STATUS_NOT_INITIALIZED == 0
INIT_STATUS_INITIALIZING == 1
INIT_STATUS_INITIALIZED == 2
DEFAULT_BAUD_RATE == 115200
DEFAULT_STOP_BITS == 1

\* Python's a & b and a | b on non-negative integers.
RECURSIVE BitAnd(_, _)
BitAnd(a, b) ==
    IF a = 0 \/ b = 0 THEN 0
    ELSE ((a % 2) * (b % 2)) + 2 * BitAnd(a \div 2, b \div 2)

BitOr(a, b) == a + b - BitAnd(a, b)

\* a & ~m for non-negative a and m.
AndNot(a, m) == a - BitAnd(a, m)

\* A variant of the loop of initialize that shifts by one bit per axis.
RECURSIVE initialize_data_shift_by_axis(_, _, _)
initialize_data_shift_by_axis(data, axis, mode) ==
    IF axis = 6 THEN data
    ELSE initialize_data_shift_by_axis(BitOr(data, mode * Pow2(axis)), axis + 1, mode)

\* initialize, lines 702..704: `for axis in range(6): data |= mode << (axis * 2)`,
\* from data with the axes from axis on still to do.
RECURSIVE initialize_data(_, _, _)
initialize_data(data, axis, mode) ==
    IF axis = 6 THEN data
    ELSE initialize_data(BitOr(data, mode * Pow2(axis * 2)), axis + 1, mode)

\* A variant of initialize_axis that takes the axis as zero-based.
initialize_axis_zero_based(axis, mode) ==
    LET cleared == AndNot(0, 3 * Pow2(axis * 2))
    IN  BitOr(cleared, mode * Pow2(axis * 2))

\* initialize_axis, lines 737..740: init_status after the two assignments.
initialize_axis_init_status(axis, mode) ==
    LET cleared == AndNot(0, 3 * Pow2((axis - 1) * 2))
    IN  BitOr(cleared, mode * Pow2((axis - 1) * 2))

\* check_initialization, line 404: (init_status >> (axis * 2)) & 0b11, for
\* axis in range(6).
axis_status(init_status, axis) == BitAnd(init_status \div Pow2(axis * 2), 3)

\* A dict, as check_initialization returns it: l[k] is the value of key
\* "axis_F<k>".
PyDict(xs) == [t |-> "dict", i |-> 0, l |-> xs, s |-> ""]

\* check_initialization, lines 400..412, on what send_modbus_command returned.
status_of(r) ==
    IF r.t = "list" /\ Len(r.l) > 0
    THEN PyDict([k \in 1..6 |->
            LET st == axis_status(r.l[1], k - 1)
            IN  IF st = 1 THEN "initialized"
                ELSE IF st = 2 THEN "initializing"
                ELSE "not initialized"])
    ELSE IF r.t = "int" THEN r
    ELSE PyInt(ERROR_INVALID_RESPONSE)

\* `result if isinstance(result, int) else self.ERROR_INVALID_RESPONSE`
int_or_invalid(r) == IF r.t = "int" THEN r ELSE PyInt(ERROR_INVALID_RESPONSE)

\* Ratios (speed, force, scaling) are carried in hundredths: h stands for the
\* float h / 100. int(h / 100 * 100) in double arithmetic is h, except where
\* the product falls just below the integer.
int_times_100(h) == IF h \in {29, 57, 58, 113, 114, 115, 116} THEN h - 1 ELSE h

\* int(max_pos * (h / 100)) in double arithmetic, for the maxima 500, 400 and
\* 10, 20, .., 60 and h in 0..100: the integer quotient, except where the
\* double nearest to h / 100 lies below it and the product falls just below
\* the integer (400 * 0.29 is 115.99999999999999).
int_scaled(max_pos, h) ==
    IF <<max_pos, h>> \in {<<400, 29>>, <<400, 57>>, <<400, 58>>, <<50, 58>>}
    THEN (max_pos * h) \div 100 - 1
    ELSE (max_pos * h) \div 100

\* What a public operation does before and after send_modbus_command: it
\* raises, or it issues one command and post-processes the result ("raw":
\* returned as is; "int": int_or_invalid; "status": status_of).
Rejected(cls) ==
    [ok |-> FALSE, raises |-> cls, function_code |-> 0, register_address |-> 0,
     data |-> PyNone, data_length |-> PyNone, post |-> "raw"]
Command(function_code, register_address, data, data_length, post) ==
    [ok |-> TRUE, raises |-> "", function_code |-> function_code,
     register_address |-> register_address, data |-> data,
     data_length |-> data_length, post |-> post]

get_history_faults ==
    Command(READ_HOLDING_REGISTERS, HISTORY_FAULTS, PyNone,
            PyInt(HISTORY_FAULTS_LENGTH), "raw")

get_all_positions ==
    Command(READ_HOLDING_REGISTERS, AXIS_CURRENT_POSITION_BASE, PyNone,
            PyInt(AXIS_COUNT), "raw")

check_initialization ==
    Command(READ_HOLDING_REGISTERS, RETURN_TO_ZERO_STATUS, PyNone, PyInt(1), "status")

get_axis_position(axis) ==
    IF axis < 1 \/ axis > 6 THEN Rejected("ValueError")
    ELSE Command(READ_HOLDING_REGISTERS, AXIS_CURRENT_POSITION_BASE + (axis - 1),
                 PyNone, PyInt(1), "raw")

get_axis_speed(axis) ==
    IF axis < 1 \/ axis > 6 THEN Rejected("ValueError")
    ELSE Command(READ_HOLDING_REGISTERS, AXIS_SPEED_STATUS_BASE + (axis - 1),
                 PyNone, PyInt(1), "raw")

get_axis_current(axis) ==
    IF axis < 1 \/ axis > 6 THEN Rejected("ValueError")
    ELSE Command(READ_HOLDING_REGISTERS, AXIS_CURRENT_BASE + (axis - 1),
                 PyNone, PyInt(1), "raw")

reset_faults == Command(WRITE_SINGLE_REGISTER, RESET_FAULTS, PyInt(1), PyNone, "int")

restart_system == Command(WRITE_SINGLE_REGISTER, RESTART_SYSTEM, PyInt(1), PyNone, "int")

aging_test(flag) ==
    IF flag \notin {0, 1} THEN Rejected("ValueError")
    ELSE Command(WRITE_SINGLE_REGISTER, AGING_TEST, PyInt(flag), PyNone, "int")

\* A variant of _validate_and_clamp_positions without the margin of 10.
_validate_and_clamp_positions_no_margin(positions, maxima) ==
    IF maxima = <<>> THEN PyList(positions)
    ELSE IF Len(positions) # Len(maxima) THEN Raise("ValueError")
    ELSE PyList([k \in 1..Len(positions) |->
            LET low == IF positions[k] < maxima[k] THEN positions[k] ELSE maxima[k]
            IN  IF low > 1 THEN low ELSE 1])

\* _validate_and_clamp_positions, given self.max_positions: a list, or the
\* ValueError it raises.
_validate_and_clamp_positions(positions, maxima) ==
    IF maxima = <<>> THEN PyList(positions)
    ELSE IF Len(positions) # Len(maxima) THEN Raise("ValueError")
    ELSE PyList([k \in 1..Len(positions) |->
            LET lim == maxima[k] - 10
                low == IF positions[k] < lim THEN positions[k] ELSE lim
            IN  IF low > 1 THEN low ELSE 1])

set_all_positions(positions) ==
    IF Len(positions) # AXIS_COUNT THEN Rejected("ValueError")
    ELSE LET safe_positions == _validate_and_clamp_positions(positions, max_positions)
         IN  IF safe_positions.t = "raise" THEN Rejected(safe_positions.s)
             ELSE Command(WRITE_MULTIPLE_REGISTERS, AXIS_POSITION_BASE,
                          safe_positions, PyInt(AXIS_COUNT), "int")

\* A variant of set_all_positions_by_ratio without the check of the ratios.
set_all_positions_by_ratio_unchecked(scalings) ==
    IF Len(scalings) # AXIS_COUNT THEN Rejected("ValueError")
    ELSE LET n == IF Len(max_positions) < Len(scalings)
                  THEN Len(max_positions) ELSE Len(scalings)
             scaled_positions == [k \in 1..n |-> (max_positions[k] * scalings[k]) \div 100]
             safe_positions == _validate_and_clamp_positions(scaled_positions, max_positions)
         IN  IF safe_positions.t = "raise" THEN Rejected(safe_positions.s)
             ELSE Command(WRITE_MULTIPLE_REGISTERS, AXIS_POSITION_BASE,
                          safe_positions, PyInt(AXIS_COUNT), "int")

\* zip(self.max_positions, scalings) stops at the shorter list.
set_all_positions_by_ratio(scalings) ==
    IF Len(scalings) # AXIS_COUNT THEN Rejected("ValueError")
    ELSE IF \E k \in 1..Len(scalings) : scalings[k] < 0 \/ scalings[k] > 100
         THEN Rejected("ValueError")
    ELSE LET n == IF Len(max_positions) < Len(scalings)
                  THEN Len(max_positions) ELSE Len(scalings)
             scaled_positions == [k \in 1..n |-> int_scaled(max_positions[k], scalings[k])]
             safe_positions == _validate_and_clamp_positions(scaled_positions, max_positions)
         IN  IF safe_positions.t = "raise" THEN Rejected(safe_positions.s)
             ELSE Command(WRITE_MULTIPLE_REGISTERS, AXIS_POSITION_BASE,
                          safe_positions, PyInt(AXIS_COUNT), "int")

\* A variant of set_all_forces without the length check.
set_all_forces_any_length(forces) ==
    IF \E k \in 1..Len(forces) : forces[k] < 20 \/ forces[k] > 100
    THEN Rejected("ValueError")
    ELSE Command(WRITE_MULTIPLE_REGISTERS, AXIS_FORCE_BASE,
                 PyList([k \in 1..Len(forces) |-> int_times_100(forces[k])]),
                 PyInt(AXIS_COUNT), "int")

set_all_forces(forces) ==
    IF Len(forces) # AXIS_COUNT THEN Rejected("ValueError")
    ELSE IF \E k \in 1..Len(forces) : forces[k] < 20 \/ forces[k] > 100
         THEN Rejected("ValueError")
    ELSE Command(WRITE_MULTIPLE_REGISTERS, AXIS_FORCE_BASE,
                 PyList([k \in 1..Len(forces) |-> int_times_100(forces[k])]),
                 PyInt(AXIS_COUNT), "int")

set_all_speeds(speeds) ==
    IF Len(speeds) # AXIS_COUNT THEN Rejected("ValueError")
    ELSE IF \E k \in 1..Len(speeds) : speeds[k] < 10 \/ speeds[k] > 100
         THEN Rejected("ValueError")
    ELSE Command(WRITE_MULTIPLE_REGISTERS, AXIS_SPEED_BASE,
                 PyList([k \in 1..Len(speeds) |-> int_times_100(speeds[k])]),
                 PyInt(AXIS_COUNT), "int")

\* Line 653: 0 if self.parity == "N" else 1 if self.parity == "E" else 2
parity_code(self_parity) ==
    IF self_parity = "N" THEN 0 ELSE IF self_parity = "E" THEN 1 ELSE 2

\* set_uart_config on a session constructed with modbus_id 1, baud rate
\* 115200, one stop bit and parity self_parity: `x or self.x` per argument.
set_uart_config_on(self_parity, modbus_id, baud_rate, stop_bits, parity) ==
    LET either(x, dflt) == IF Truthy(x) THEN x.i ELSE dflt
    IN  Command(WRITE_MULTIPLE_REGISTERS, UART_CONFIG,
                PyList(<<either(modbus_id, DEFAULT_MODBUS_ID),
                         either(baud_rate, DEFAULT_BAUD_RATE),
                         either(stop_bits, DEFAULT_STOP_BITS),
                         either(parity, parity_code(self_parity))>>),
                PyNone, "int")

\* set_uart_config on a session constructed with the defaults (parity "N").
set_uart_config(modbus_id, baud_rate, stop_bits, parity) ==
    set_uart_config_on("N", modbus_id, baud_rate, stop_bits, parity)

set_save_param(flag) ==
    Command(WRITE_SINGLE_REGISTER, SAVE_PARAM, PyInt(flag), PyNone, "int")

InitModes == {INIT_MODE_CLOSE, INIT_MODE_OPEN, INIT_MODE_FIND_STROKE}

\* A variant of initialize without the mode check.
initialize_any_mode(mode) ==
    Command(WRITE_SINGLE_REGISTER, RETURN_TO_ZERO,
            PyInt(initialize_data(0, 0, mode)), PyNone, "int")

initialize(mode) ==
    IF mode \notin InitModes THEN Rejected("ValueError")
    ELSE Command(WRITE_SINGLE_REGISTER, RETURN_TO_ZERO,
                 PyInt(initialize_data(0, 0, mode)), PyNone, "int")

initialize_axis(axis, mode) ==
    IF axis < 1 \/ axis > 6 THEN Rejected("ValueError")
    ELSE IF mode \notin InitModes THEN Rejected("ValueError")
    ELSE Command(WRITE_SINGLE_REGISTER, RETURN_TO_ZERO,
                 PyInt(initialize_axis_init_status(axis, mode)), PyNone, "int")

set_axis_position(axis, position) ==
    IF axis < 1 \/ axis > 6 THEN Rejected("ValueError")
    ELSE Command(WRITE_SINGLE_REGISTER, AXIS_POSITION_BASE + (axis - 1),
                 PyInt(position), PyNone, "int")

\* A variant of set_axis_speed that adds the axis number itself to the base.
set_axis_speed_one_based(axis, speed) ==
    IF axis < 1 \/ axis > 6 THEN Rejected("ValueError")
    ELSE Command(WRITE_SINGLE_REGISTER, AXIS_SPEED_BASE + axis,
                 PyInt(speed), PyNone, "int")

set_axis_speed(axis, speed) ==
    IF axis < 1 \/ axis > 6 THEN Rejected("ValueError")
    ELSE Command(WRITE_SINGLE_REGISTER, AXIS_SPEED_BASE + (axis - 1),
                 PyInt(speed), PyNone, "int")

\* A variant of set_axis_force without the axis check.
set_axis_force_any_axis(axis, force) ==
    Command(WRITE_SINGLE_REGISTER, AXIS_FORCE_BASE + (axis - 1) * 16,
            PyInt(force), PyNone, "int")

set_axis_force(axis, force) ==
    IF axis < 1 \/ axis > 6 THEN Rejected("ValueError")
    ELSE Command(WRITE_SINGLE_REGISTER, AXIS_FORCE_BASE + (axis - 1) * 16,
                 PyInt(force), PyNone, "int")

\* One public operation from validation to return: the exception its
\* validation raises, or send_modbus_command and the post-processing.
complete(req, bus) ==
    IF ~req.ok THEN [events |-> <<>>, result |-> Raise(req.raises)]
    ELSE LET x == api_send_modbus_command(req.function_code, req.register_address,
                                          req.data, req.data_length, bus)
         IN  [events |-> x.events,
              result |-> CASE req.post = "raw" -> x.result
                           [] req.post = "int" -> int_or_invalid(x.result)
                           [] req.post = "status" -> status_of(x.result)]

\* Status words the device may report: no axis initialized, every field
\* 0b01, every field 0b10, and a word with both.
StatusWords == {0, 1365, 2730, 1366}

\* Positions the device may report for the six axes.
PositionReadings == {[k \in 1..AXIS_COUNT |-> 400]}

\* The bus during the read of a public operation: the outcomes of
\* ReadOutcomes with one short answer, one answer of the requested length
\* and one exception response.
PublicReadOutcomes(count) ==
    {b \in ReadOutcomes(count) :
        \/ b.reply.k = "raise"
        \/ b.reply.k = "response" /\ (b.resent \/ Len(b.reply.registers) = MaxRespRegs)
        \/ b.reply.k = "exception" /\ b.reply.exception_code = 2}
    \cup {[sent |-> TRUE, resent |-> FALSE,
           reply |-> Response(READ_HOLDING_REGISTERS, DeviceRegisters(count))]}

\* The bus during the client call of a public operation. A register value
\* outside 0..65535 cannot be encoded: the client raises before it writes.
PublicOutcomes(req) ==
    IF req.function_code = READ_HOLDING_REGISTERS THEN
        PublicReadOutcomes(read_count(req.data_length))
        \cup (IF req.register_address = RETURN_TO_ZERO_STATUS
              THEN {[sent |-> TRUE, resent |-> FALSE,
                     reply |-> Response(READ_HOLDING_REGISTERS, <<w>>)] : w \in StatusWords}
              ELSE {})
        \cup (IF req.data_length = PyInt(AXIS_COUNT)
              THEN {[sent |-> TRUE, resent |-> FALSE,
                     reply |-> Response(READ_HOLDING_REGISTERS, p)] : p \in PositionReadings}
              ELSE {})
    ELSE IF \/ req.data.t = "int" /\ req.data.i \notin 0..65535
            \/ req.data.t = "list" /\ \E k \in 1..Len(req.data.l) : req.data.l[k] \notin 0..65535
         THEN {[sent |-> FALSE, resent |-> FALSE, reply |-> Raised("struct.error")]}
    ELSE Outcomes(req.function_code, req.data, req.data_length)

Uniform(n, v) == [k \in 1..n |-> v]

AxisArgs == {0, 1, 6, 7}
ModeArgs == {0, 2, 3, 4}
FlagArgs == {0, 1, 2}
PositionArgs == {0, 250, 600}
SpeedArgs == {0, 50, 500}
ForceArgs == {0, 50, 500}
PositionLists ==
    {Uniform(n, 250) : n \in 5..7} \cup {Uniform(AXIS_COUNT, v) : v \in {0, 600}}
\* Lists of ratios, in hundredths.
RatioLists ==
    {Uniform(n, 50) : n \in 5..7}
    \cup {Uniform(AXIS_COUNT, v) : v \in {5, 15, 29, 100, 150}}
    \cup {[Uniform(AXIS_COUNT, 50) EXCEPT ![AXIS_COUNT] = 150]}
\* set_uart_config's arguments (modbus_id, baud_rate, stop_bits, parity);
\* -1 stands for an argument left at None.
UartArgs == {<<-1, -1, -1, -1>>, <<2, 9600, 2, 1>>, <<-1, 9600, -1, 0>>}
Optional(x) == IF x = -1 THEN PyNone ELSE PyInt(x)

PublicCall(name, axis, arg, req) ==
    /\ pc = "idle"
    /\ \E bus \in (IF req.ok /\ is_connected THEN PublicOutcomes(req) ELSE {NoCall}) :
        LET r == complete(req, bus)
        IN  /\ op' = [NoOp EXCEPT !.name = name, !.connected = is_connected,
                                  !.axis = axis, !.arg = arg, !.bus = bus,
                                  !.wire = wire]
            /\ events' = r.events
            /\ result' = r.result
            /\ wire' = wire_after(wire, r.events)
    /\ UNCHANGED <<client, max_positions, pc, codecVars>>

Call_get_history_faults == PublicCall("get_history_faults", 0, PyNone, get_history_faults)
Call_get_all_positions == PublicCall("get_all_positions", 0, PyNone, get_all_positions)
Call_check_initialization ==
    PublicCall("check_initialization", 0, PyNone, check_initialization)
Call_get_axis_position ==
    \E axis \in AxisArgs :
        PublicCall("get_axis_position", axis, PyNone, get_axis_position(axis))
Call_get_axis_speed ==
    \E axis \in AxisArgs :
        PublicCall("get_axis_speed", axis, PyNone, get_axis_speed(axis))
Call_get_axis_current ==
    \E axis \in AxisArgs :
        PublicCall("get_axis_current", axis, PyNone, get_axis_current(axis))
Call_reset_faults == PublicCall("reset_faults", 0, PyNone, reset_faults)
Call_restart_system == PublicCall("restart_system", 0, PyNone, restart_system)
Call_aging_test ==
    \E flag \in FlagArgs : PublicCall("aging_test", 0, PyInt(flag), aging_test(flag))
Call_set_all_positions ==
    \E positions \in PositionLists :
        PublicCall("set_all_positions", 0, PyList(positions), set_all_positions(positions))
Call_set_all_positions_by_ratio ==
    \E scalings \in RatioLists :
        PublicCall("set_all_positions_by_ratio", 0, PyList(scalings),
                   set_all_positions_by_ratio(scalings))
Call_set_all_forces ==
    \E forces \in RatioLists :
        PublicCall("set_all_forces", 0, PyList(forces), set_all_forces(forces))
Call_set_all_speeds ==
    \E speeds \in RatioLists :
        PublicCall("set_all_speeds", 0, PyList(speeds), set_all_speeds(speeds))
Call_set_uart_config ==
    \E a \in UartArgs :
        PublicCall("set_uart_config", 0, PyList(a),
                   set_uart_config(Optional(a[1]), Optional(a[2]),
                                   Optional(a[3]), Optional(a[4])))
Call_set_save_param ==
    \E flag \in {0, 1} : PublicCall("set_save_param", 0, PyInt(flag), set_save_param(flag))
Call_initialize ==
    \E mode \in ModeArgs : PublicCall("initialize", 0, PyInt(mode), initialize(mode))
Call_initialize_axis ==
    \E axis \in AxisArgs, mode \in ModeArgs :
        PublicCall("initialize_axis", axis, PyInt(mode), initialize_axis(axis, mode))
Call_set_axis_position ==
    \E axis \in AxisArgs, position \in PositionArgs :
        PublicCall("set_axis_position", axis, PyInt(position),
                   set_axis_position(axis, position))
Call_set_axis_speed ==
    \E axis \in AxisArgs, speed \in SpeedArgs :
        PublicCall("set_axis_speed", axis, PyInt(speed), set_axis_speed(axis, speed))
Call_set_axis_force ==
    \E axis \in AxisArgs, force \in ForceArgs :
        PublicCall("set_axis_force", axis, PyInt(force), set_axis_force(axis, force))

\* calibrate_max_positions up to its polling loop (lines 305..310): it
\* raises when there is no client, else calls initialize(2), whose result it
\* drops, and starts polling.
calibrate_max_positions ==
    /\ pc = "idle"
    /\ IF client = "none" THEN
            /\ op' = [NoOp EXCEPT !.name = "calibrate_max_positions",
                                  !.connected = is_connected, !.wire = wire]
            /\ events' = <<>>
            /\ result' = Raise("ConnectionError")
            /\ UNCHANGED <<wire, pc>>
       ELSE LET req == initialize(INIT_MODE_OPEN)
            IN  \E bus \in (IF is_connected THEN PublicOutcomes(req) ELSE {NoCall}) :
                    LET r == complete(req, bus)
                    IN  /\ op' = [NoOp EXCEPT !.name = "calibrate_max_positions",
                                              !.connected = is_connected,
                                              !.function_code = req.function_code,
                                              !.register_address = req.register_address,
                                              !.data = req.data,
                                              !.bus = bus, !.wire = wire]
                        /\ events' = r.events
                        /\ result' = Pending
                        /\ wire' = wire_after(wire, r.events)
                        /\ pc' = "polling"
    /\ UNCHANGED <<client, max_positions, codecVars>>

\* A variant of the loop condition that stops polling as soon as one axis
\* is reported "initialized".
all_initialized_any_axis(results) ==
    /\ results.t = "dict"
    /\ \E k \in 1..Len(results.l) : results.l[k] = "initialized"

\* Whether check_initialization reported six axes, all "initialized".
all_initialized(results) ==
    /\ results.t = "dict"
    /\ Len(results.l) = AXIS_COUNT
    /\ \A k \in 1..Len(results.l) : results.l[k] = "initialized"

\* A variant of the end of calibrate_max_positions that stores whatever
\* list the position read returned.
calibrate_store_any_list(results, maxima) ==
    IF results.t = "list"
    THEN [max_positions |-> results.l,
          result |-> PyInt(IF Len(results.l) = AXIS_COUNT THEN SUCCESS
                           ELSE ERROR_INVALID_RESPONSE)]
    ELSE [max_positions |-> maxima, result |-> PyInt(ERROR_INVALID_RESPONSE)]

\* A variant that replaces the maxima of the first three axes only.
calibrate_store_first_half(results, maxima) ==
    IF results.t = "list" /\ Len(results.l) = AXIS_COUNT
    THEN [max_positions |-> [k \in 1..AXIS_COUNT |->
                                IF k <= 3 THEN results.l[k] ELSE maxima[k]],
          result |-> PyInt(SUCCESS)]
    ELSE [max_positions |-> maxima, result |-> PyInt(ERROR_INVALID_RESPONSE)]

\* The end of calibrate_max_positions (lines 323..332): a list of six
\* becomes self.max_positions and the call returns SUCCESS; anything else
\* leaves self.max_positions alone and returns ERROR_INVALID_RESPONSE.
calibrate_store(results, maxima) ==
    IF results.t = "list" /\ Len(results.l) = AXIS_COUNT
    THEN [max_positions |-> results.l, result |-> PyInt(SUCCESS)]
    ELSE [max_positions |-> maxima, result |-> PyInt(ERROR_INVALID_RESPONSE)]

\* One iteration of `while True` (lines 312..320), and, when it breaks out
\* of the loop, the rest of calibrate_max_positions (lines 322..332). op
\* keeps the bus outcome of the initialization write in op.bus, that of the
\* latest status poll in op.poll and that of the position read in op.read.
calibrate_poll ==
    /\ pc = "polling"
    /\ \E bus \in (IF is_connected THEN PublicOutcomes(check_initialization) ELSE {NoCall}) :
        LET poll == complete(check_initialization, bus)
        IN  IF all_initialized(poll.result)
            THEN \E bus2 \in (IF is_connected THEN PublicOutcomes(get_all_positions)
                              ELSE {NoCall}) :
                    LET read == complete(get_all_positions, bus2)
                        end == calibrate_store(read.result, max_positions)
                    IN  /\ op' = [op EXCEPT !.poll = bus, !.read = bus2]
                        /\ events' = poll.events \o read.events
                        /\ max_positions' = end.max_positions
                        /\ result' = end.result
                        /\ wire' = wire_after(wire_after(wire, poll.events), read.events)
                        /\ pc' = "idle"
            ELSE /\ op' = [op EXCEPT !.poll = bus]
                 /\ events' = poll.events
                 /\ wire' = wire_after(wire, poll.events)
                 /\ UNCHANGED <<max_positions, result, pc>>
    /\ UNCHANGED <<client, codecVars>>

NextOps ==
    \/ open_connection
    \/ close_connection
    \/ ConnectionLost
    \/ Call_get_history_faults
    \/ Call_get_all_positions
    \/ Call_check_initialization
    \/ Call_get_axis_position
    \/ Call_get_axis_speed
    \/ Call_get_axis_current
    \/ Call_reset_faults
    \/ Call_restart_system
    \/ Call_aging_test
    \/ Call_set_all_positions
    \/ Call_set_all_positions_by_ratio
    \/ Call_set_all_forces
    \/ Call_set_all_speeds
    \/ Call_set_uart_config
    \/ Call_set_save_param
    \/ Call_initialize
    \/ Call_initialize_axis
    \/ Call_set_axis_position
    \/ Call_set_axis_speed
    \/ Call_set_axis_force
    \/ calibrate_max_positions
    \/ calibrate_poll

SpecOps == Init /\ [][NextOps]_vars

---------------------------------------------------------------------------
(* The codec and the register packing, each applied once to drawn inputs.  *)

\* The six 2-bit fields of a status or mode word, least-significant pair
\* first, as check_initialization reads them (line 404).
unpack_per_axis_2bit(word) == [k \in 1..AXIS_COUNT |-> axis_status(word, k - 1)]

\* The value an operation hands to send_modbus_command as data, or the
\* exception it raises before that.
data_of(req) == IF req.ok THEN req.data ELSE Raise(req.raises)

\* initialize and initialize_axis are applied to every mode 0..4 and every
\* axis 0..7.
InitializeCalls == {[NoInp EXCEPT !.mode = m] : m \in 0..4}
InitializeAxisCalls == {[NoInp EXCEPT !.axis = a, !.mode = m] : a \in 0..7, m \in 0..4}

InitializeWord ==
    /\ fn = "initialize" /\ out = Pending
    /\ out' = data_of(initialize(inp.mode))
    /\ UNCHANGED <<fn, inp, sessionVars>>

InitializeAxisWord ==
    /\ fn = "initialize_axis" /\ out = Pending
    /\ out' = data_of(initialize_axis(inp.axis, inp.mode))
    /\ UNCHANGED <<fn, inp, sessionVars>>

\* _validate_and_clamp_positions is applied to six consecutive positions
\* p, p + 1, .., p + 5 under six equal maxima: maxima a position read can
\* return (0..65535), around the margin of 10 and far from it.
ClampMaxima == {0, 5, 10, 11, 12, 20, 400, 500, 65535}
ClampPositions == {-6, -2, 0, 1, 5, 388, 487, 600, 65533}
ClampCalls ==
    {[NoInp EXCEPT !.positions = [k \in 1..AXIS_COUNT |-> p + k - 1],
                   !.maxima = Uniform(AXIS_COUNT, m)] :
        p \in ClampPositions, m \in ClampMaxima}

ClampPositionsCall ==
    /\ fn = "clamp" /\ out = Pending
    /\ out' = _validate_and_clamp_positions(inp.positions, inp.maxima)
    /\ UNCHANGED <<fn, inp, sessionVars>>

\* The six per-axis register operations are applied to every axis 0..7;
\* the setters are given the value 50.
PerAxisNames ==
    {"get_axis_position", "get_axis_speed", "get_axis_current",
     "set_axis_position", "set_axis_speed", "set_axis_force"}
PerAxisCalls == {[NoInp EXCEPT !.name = n, !.axis = a] : n \in PerAxisNames, a \in 0..7}

per_axis(name, axis) ==
    CASE name = "get_axis_position" -> get_axis_position(axis)
      [] name = "get_axis_speed" -> get_axis_speed(axis)
      [] name = "get_axis_current" -> get_axis_current(axis)
      [] name = "set_axis_position" -> set_axis_position(axis, 50)
      [] name = "set_axis_speed" -> set_axis_speed(axis, 50)
      [] name = "set_axis_force" -> set_axis_force(axis, 50)

\* The register address an operation hands to send_modbus_command, or the
\* exception it raises before that.
address_of(req) == IF req.ok THEN PyInt(req.register_address) ELSE Raise(req.raises)

PerAxisAddress ==
    /\ fn = "per_axis" /\ out = Pending
    /\ out' = address_of(per_axis(inp.name, inp.axis))
    /\ UNCHANGED <<fn, inp, sessionVars>>

\* set_uart_config on sessions of each parity, each argument omitted (-1)
\* or given, the value 0 included.
UartConfigCalls ==
    {[NoInp EXCEPT !.name = sp, !.values = <<m, b, sb, p>>] :
        sp \in {"N", "E", "O"}, m \in {-1, 0, 2}, b \in {-1, 9600},
        sb \in {-1, 2}, p \in {-1, 0, 1, 2}}

\* The register values set_uart_config hands to send_modbus_command.
UartConfigRegisters ==
    /\ fn = "uart" /\ out = Pending
    /\ out' = set_uart_config_on(inp.name, Optional(inp.values[1]), Optional(inp.values[2]),
                                 Optional(inp.values[3]), Optional(inp.values[4])).data
    /\ UNCHANGED <<fn, inp, sessionVars>>

InitCodec ==
    /\ \/ fn = "crc" /\ inp \in CrcCalls
       \/ fn = "build" /\ inp \in BuildCalls
       \/ fn = "parse" /\ inp \in ParseCalls
       \/ fn = "initialize" /\ inp \in InitializeCalls
       \/ fn = "initialize_axis" /\ inp \in InitializeAxisCalls
       \/ fn = "clamp" /\ inp \in ClampCalls
       \/ fn = "per_axis" /\ inp \in PerAxisCalls
       \/ fn = "uart" /\ inp \in UartConfigCalls
    /\ out = Pending
    /\ InitSession

NextCodec ==
    \/ CalcCrc
    \/ BuildRequest
    \/ ParseResponse
    \/ InitializeWord
    \/ InitializeAxisWord
    \/ ClampPositionsCall
    \/ PerAxisAddress
    \/ UartConfigRegisters

SpecCodec == InitCodec /\ [][NextCodec]_vars

---------------------------------------------------------------------------
(* Claims about the frame codec, checked under SpecCodec.                  *)

Returned == out # Pending

\* C1: for every byte sequence, _calculate_crc returns the reference CRC
\* (accumulator 0xFFFF, each byte XORed into the low byte, 8 times shift
\* right and XOR 0xA001 when the low bit was set), and the result fits in
\* 16 bits.
C1_ChecksumIsReferenceCrc ==
    (fn = "crc" /\ Returned) =>
        /\ out.t = "int"
        /\ out.i = RefCrc16(inp.bytes)
        /\ out.i \in 0..65535

\* The checksum of the request 01 03 00 00 00 01 is 0x0A84.
C1_Witness ==
    fn = "crc" /\ inp.bytes = <<1, 3, 0, 0, 0, 1>> /\ out = PyInt(2692)

\* C2: every frame _build_request returns is [unit][function code]
\* [register address, big-endian][payload] followed by exactly two checksum
\* bytes, the checksum of all preceding bytes, low byte first.
C2_FrameLayout ==
    (fn = "build" /\ Returned /\ out.t = "bytes") =>
        LET frame == out.l
            n == Len(frame)
            crc == RefCrc16(SubSeq(frame, 1, n - 2))
            payload == SubSeq(frame, 5, n - 2)
        IN  /\ n >= 6
            /\ frame[1] = DEFAULT_MODBUS_ID
            /\ frame[2] = inp.function_code
            /\ frame[3] = inp.register_address \div 256
            /\ frame[4] = inp.register_address % 256
            /\ inp.function_code = READ_HOLDING_REGISTERS =>
                   payload = <<inp.data_length.i \div 256, inp.data_length.i % 256>>
            /\ inp.function_code = WRITE_SINGLE_REGISTER =>
                   payload = <<inp.value.i \div 256, inp.value.i % 256>>
            /\ frame[n - 1] = crc % 256
            /\ frame[n] = crc \div 256

\* WriteSingleRegister(address 0x0501, value 1) is 01 06 05 01 00 01 19 06.
C2_Witness ==
    /\ fn = "build"
    /\ inp.function_code = WRITE_SINGLE_REGISTER
    /\ out = PyBytes(<<1, 6, 5, 1, 0, 1, 25, 6>>)

\* C4: in every WriteMultipleRegisters frame the register-count field equals
\* the number of 16-bit values that follow and the byte-count field is twice
\* that number, for every value list and data_length.
C4_CountMatchesValues ==
    (fn = "build" /\ Returned /\ out.t = "bytes"
        /\ inp.function_code = WRITE_MULTIPLE_REGISTERS) =>
        LET frame == out.l
            following == Len(frame) - 9     \* bytes between the byte count and the checksum
        IN  /\ (following % 2) = 0
            /\ frame[5] * 256 + frame[6] = following \div 2
            /\ frame[7] = following

\* C5: a response of at least 5 bytes that carried a correct checksum, with
\* one bit of its last two bytes inverted, makes _parse_response return
\* ERROR_CRC_CHECK_FAILED, whatever its function code.
C5_FlippedChecksumRejected ==
    (fn = "parse" /\ Returned /\ Len(inp.bytes) >= 5 /\ inp.flips # {}) =>
        out = PyInt(ERROR_CRC_CHECK_FAILED)

\* C9: a read response [unit][0x03][byte count][values big-endian][matching
\* checksum, low byte first] carrying 1 or more registers decodes to exactly
\* those registers, in order.
C9_ReadRoundTrip ==
    (fn = "parse" /\ Returned /\ inp.function_code = READ_HOLDING_REGISTERS
        /\ Len(inp.regs) >= 1 /\ inp.flips = {}
        /\ inp.bytes = DeviceFrame(ReadBody(inp.regs))) =>
        out = PyList(inp.regs)

\* The six-register read: registers 10, 20, 30, 40, 50, 60 come back.
C9_Witness ==
    /\ fn = "parse"
    /\ inp.function_code = READ_HOLDING_REGISTERS
    /\ inp.flips = {}
    /\ Len(inp.bytes) = 17
    /\ out = PyList(<<10, 20, 30, 40, 50, 60>>)

\* C10: a response of fewer than 5 bytes, the empty one included, is
\* rejected with ERROR_INVALID_RESPONSE before the function code and the
\* checksum are looked at.
C10_ShortResponseRejected ==
    (fn = "parse" /\ Returned /\ Len(inp.bytes) < 5) =>
        out = PyInt(ERROR_INVALID_RESPONSE)

\* A 4-byte response whose function code is the expected one.
C10_Witness ==
    /\ fn = "parse"
    /\ Len(inp.bytes) = 4
    /\ inp.bytes[2] = inp.function_code
    /\ out = PyInt(ERROR_INVALID_RESPONSE)

\* C11: for every valid mode m (0b01, 0b10, 0b11), the word initialize(m)
\* writes is m in each of the six 2-bit fields of bits 0..11 and zero in bits
\* 12..15, and unpacking it two bits per axis, least-significant pair first,
\* gives [m, m, m, m, m, m].
C11_UniformModeWord ==
    (fn = "initialize" /\ Returned /\ inp.mode \in 1..3) =>
        /\ out.t = "int"
        /\ out.i = inp.mode * (1 + 4 + 16 + 64 + 256 + 1024)
        /\ out.i \div 4096 = 0
        /\ unpack_per_axis_2bit(out.i) = [k \in 1..6 |-> inp.mode]

\* initialize(0b10) writes 0x0AAA, which unpacks to six times 0b10.
C11_Witness ==
    /\ fn = "initialize"
    /\ inp.mode = 2
    /\ out = PyInt(2730)
    /\ unpack_per_axis_2bit(out.i) = <<2, 2, 2, 2, 2, 2>>

\* C12: for every axis a in 1..6 and valid mode m, the word
\* initialize_axis(a, m) writes unpacks to m in field a - 1 and to 0 in the
\* five other fields.
C12_SingleAxisWord ==
    (fn = "initialize_axis" /\ Returned /\ inp.axis \in 1..6 /\ inp.mode \in 1..3) =>
        /\ out.t = "int"
        /\ out.i = inp.mode * Pow2(2 * (inp.axis - 1))
        /\ unpack_per_axis_2bit(out.i) =
                [k \in 1..6 |-> IF k = inp.axis THEN inp.mode ELSE 0]

\* initialize_axis(3, 0b01) writes 0x0010, which unpacks to [0, 0, 1, 0, 0, 0].
C12_Witness ==
    /\ fn = "initialize_axis"
    /\ inp.axis = 3 /\ inp.mode = 1
    /\ out = PyInt(16)
    /\ unpack_per_axis_2bit(out.i) = <<0, 0, 1, 0, 0, 0>>

---------------------------------------------------------------------------
(* Claims about the session's send_modbus_command, checked under Spec.     *)

Sent == {k \in 1..Len(events) : events[k].e = "send"}
ConnectedCall == op.name = "send_modbus_command" /\ op.connected
ExceptionReply == ConnectedCall /\ op.bus.sent /\ op.bus.reply.k = "exception"

\* The register count the caller asked for: data_length, 1 when omitted.
RequestedCount == IF op.data_length.t = "none" THEN 1 ELSE op.data_length.i

\* C3: a ReadRegisters request whose register count is outside 1..125 (0 and
\* 126 included) is rejected: the call returns an error code and no request
\* is written to the transport.
C3_BadReadCountRejected ==
    (ConnectedCall /\ op.function_code = READ_HOLDING_REGISTERS
        /\ RequestedCount \notin 1..125) =>
        (result.t = "int" /\ result.i # SUCCESS /\ Sent = {})

\* C6: when the device answers with an exception response (the request's
\* function code with its high bit set), the call fails and its result
\* carries the exception code the device reported.
C6_ExceptionCodeCarried ==
    (ExceptionReply /\ op.bus.reply.function_code = op.function_code + 128) =>
        (result.t = "int" /\ result.i # SUCCESS
            /\ result.i = op.bus.reply.exception_code)

\* C7: an exception response with function code 0xFF is a successful
\* acknowledgment, the call returns SUCCESS and no register values; every
\* other exception response yields an error.
C7_SentinelIsSuccess ==
    ExceptionReply =>
        IF op.bus.reply.function_code = SENTINEL_FUNCTION_CODE
        THEN result = PyInt(SUCCESS)
        ELSE result = PyInt(ERROR_INVALID_RESPONSE)

\* C8: whenever a ReadRegisters call returns a list, the list has exactly as
\* many elements as the requested register count.
C8_ReadLengthMatches ==
    (ConnectedCall /\ op.function_code = READ_HOLDING_REGISTERS /\ result.t = "list") =>
        Len(result.l) = read_count(op.data_length)

C20_OneOutstanding ==
    (ConnectedCall /\ Sent # {}) => op.wire # "outstanding"

---------------------------------------------------------------------------
(* Claims about the public operations, checked under SpecOps.              *)

PerAxisOps ==
    {"get_axis_position", "get_axis_speed", "get_axis_current", "set_axis_position",
     "set_axis_speed", "set_axis_force", "initialize_axis"}
AllAxesWrites ==
    {"set_all_positions", "set_all_positions_by_ratio", "set_all_speeds", "set_all_forces"}
DeviceOp == op.name \notin {"none", "open_connection", "close_connection"}

\* The operation failed with ValueError and touched nothing on the transport.
InvalidArgument == result = Raise("ValueError") /\ events = <<>>

\* A step that is a call (or a poll of calibrate_max_positions).
CallStep == <<op, events, result>>' # <<op, events, result>>

\* C13: every per-axis operation given an axis outside 1..6 fails with
\* ValueError, reads and writes nothing on the transport and changes no
\* session state.
C13_BadAxisRejected ==
    [][(CallStep /\ op'.name \in PerAxisOps /\ op'.axis \notin 1..6) =>
        /\ result' = Raise("ValueError")
        /\ events' = <<>>
        /\ UNCHANGED <<client, max_positions, wire, pc>>]_vars

\* initialize_axis(7, mode) on a connected session.
C13_Witness ==
    /\ op.name = "initialize_axis"
    /\ op.axis = 7
    /\ op.arg.i \in InitModes
    /\ op.connected
    /\ InvalidArgument

\* C14: every all-axes write given a list whose length is not 6 fails with
\* ValueError before any transport I/O.
C14_BadLengthRejected ==
    (op.name \in AllAxesWrites /\ Len(op.arg.l) # AXIS_COUNT) => InvalidArgument

\* set_all_forces with five in-range forces on a connected session.
C14_Witness ==
    /\ op.name = "set_all_forces"
    /\ op.arg.l = Uniform(5, 50)
    /\ op.connected
    /\ InvalidArgument

\* C15: an operation that sets speed or force, for one axis or for all, is
\* rejected when a speed is outside 0.1..1.0 or a force outside 0.2..1.0
\* (10..100 and 20..100 in hundredths, the unit of the registers): it does
\* not return SUCCESS and no request carrying the value is written.
C15_OutOfRangeRejected ==
    LET bad(v, lo) == v < lo \/ v > 100
        rejected == result # PyInt(SUCCESS) /\ Sent = {}
    IN  /\ (op.name = "set_all_speeds"
                /\ \E k \in 1..Len(op.arg.l) : bad(op.arg.l[k], 10)) => rejected
        /\ (op.name = "set_all_forces"
                /\ \E k \in 1..Len(op.arg.l) : bad(op.arg.l[k], 20)) => rejected
        /\ (op.name = "set_axis_speed" /\ op.axis \in 1..6
                /\ bad(op.arg.i, 10)) => rejected
        /\ (op.name = "set_axis_force" /\ op.axis \in 1..6
                /\ bad(op.arg.i, 20)) => rejected

\* C16: initialize(mode) and initialize_axis(axis, mode) fail with
\* ValueError before any transport I/O for every mode other than 0b01, 0b10,
\* 0b11 (0 and 4 included).
C16_BadModeRejected ==
    (op.name \in {"initialize", "initialize_axis"} /\ op.arg.i \notin 1..3) =>
        InvalidArgument

\* initialize(0) on a connected session.
C16_Witness ==
    /\ op.name = "initialize"
    /\ op.arg = PyInt(0)
    /\ op.connected
    /\ InvalidArgument

\* C17: while the session is not connected, every operation on the device,
\* calibration included and whatever its arguments, returns at once with a
\* not-connected failure (ERROR_CONNECTION_FAILED or ConnectionError) and
\* reads, writes and flushes nothing.
C17_NotConnectedFailsFast ==
    (DeviceOp /\ ~op.connected) =>
        /\ result \in {PyInt(ERROR_CONNECTION_FAILED), Raise("ConnectionError")}
        /\ events = <<>>
        /\ pc = "idle"

\* C18: a public read or write operation other than calibration puts at
\* most one request on the transport per call, and none again after a
\* timeout.
C18_AtMostOneRequest ==
    (DeviceOp /\ op.name # "calibrate_max_positions") => Cardinality(Sent) <= 1


---------------------------------------------------------------------------
(* Calibration on its own. The loop of calibrate_max_positions sleeps one  *)
(* second and polls again (lines 312..320), so a poll that can be made is  *)
(* eventually made: weak fairness of calibrate_poll.                       *)

NextCalibrate ==
    \/ open_connection
    \/ close_connection
    \/ ConnectionLost
    \/ calibrate_max_positions
    \/ calibrate_poll

SpecCalibrate == Init /\ [][NextCalibrate]_vars /\ WF_vars(calibrate_poll)

\* C21: calibrate always terminates: once calibrate_max_positions polls the
\* status word of a connected device it eventually returns (or the
\* connection drops), also when no poll ever reports every axis initialized:
\* there is then a bound on the polls, after which it fails.
C21_CalibrateTerminates ==
    (pc = "polling" /\ is_connected) ~> (pc = "idle" \/ ~is_connected)

\* calibrate_max_positions has returned the value in result.
CalibrateReturned ==
    pc = "idle" /\ op.name = "calibrate_max_positions" /\ result.t = "int"

\* What get_all_positions returned to calibrate_max_positions (line 323).
FinalRead == complete(get_all_positions, op.read).result

SixValues(results) == results.t = "list" /\ Len(results.l) = AXIS_COUNT

\* C22: when the final position read of calibrate does not return exactly
\* six values (an error code, or a list of another length), calibrate
\* returns the error code ERROR_INVALID_RESPONSE and max_positions is what
\* it was before the call.
C22_ReadErrorKeepsMaxima ==
    [][(pc = "polling" /\ pc' = "idle" /\ ~SixValues(FinalRead'))
            => /\ result' = PyInt(ERROR_INVALID_RESPONSE)
               /\ max_positions' = max_positions]_vars

\* After a calibration that stored <<400, ...>>, a second calibrate whose
\* position read returns a list that is not six long fails, and the maxima
\* are still <<400, ...>>.
C22_Witness ==
    /\ CalibrateReturned
    /\ op.read.reply.k = "response"
    /\ Len(op.read.reply.registers) \notin {0, AXIS_COUNT}
    /\ result = PyInt(ERROR_INVALID_RESPONSE)
    /\ max_positions = [k \in 1..AXIS_COUNT |-> 400]

---------------------------------------------------------------------------
(* Claims about the safety clamp, checked under SpecOps.                   *)

\* max_positions is still the class attribute [500] * 6 of line 90. The
\* devices of this model never report six times 500, so it is what a
\* session holds exactly as long as calibrate has not succeeded on it.
Uncalibrated == max_positions = [k \in 1..AXIS_COUNT |-> DEFAULT_MAX_POSITION]

\* The requests of the last operation that write target-position registers.
PositionWrites ==
    {k \in Sent : /\ events[k].function_code \in {WRITE_SINGLE_REGISTER,
                                                  WRITE_MULTIPLE_REGISTERS}
                  /\ events[k].address \in AXIS_POSITION_BASE..(AXIS_POSITION_BASE + 5)}

\* C24: on a session on which calibrate has never succeeded, the clamp
\* returns its input unchanged: every request set_all_positions writes
\* carries exactly the six positions the caller passed.
C24_UncalibratedPassThrough ==
    (op.name = "set_all_positions" /\ Uncalibrated) =>
        \A k \in PositionWrites : events[k].values = op.arg.l

\* C25: after a successful calibration, every value written to the
\* target-position register of axis a by set_all_positions,
\* set_all_positions_by_ratio or set_axis_position lies in
\* 1..(max_positions[a] - 10).
C25_WrittenPositionsInRange ==
    (op.name \in {"set_all_positions", "set_all_positions_by_ratio", "set_axis_position"}
        /\ ~Uncalibrated) =>
        \A k \in PositionWrites :
            \A j \in 1..Len(events[k].values) :
                LET a == events[k].address - AXIS_POSITION_BASE + j
                IN  /\ events[k].values[j] >= 1
                    /\ events[k].values[j] <= max_positions[a] - 10

\* C27: set_all_positions_by_ratio with six ratios in [0.0, 1.0] writes, for
\* each axis, the clamp of the integer part of the product of the axis's
\* maximum and the ratio as Python computes it (the integer quotient
\* max * h / 100 for the ratio h / 100, or one less where the double
\* product falls just below it); with a ratio outside [0.0, 1.0] it fails
\* with ValueError before any transport I/O.
C27_RatioScaledThenClamped ==
    (op.name = "set_all_positions_by_ratio" /\ Len(op.arg.l) = AXIS_COUNT) =>
        IF \A k \in 1..AXIS_COUNT : op.arg.l[k] >= 0 /\ op.arg.l[k] <= 100
        THEN LET scaled == [k \in 1..AXIS_COUNT |->
                                int_scaled(max_positions[k], op.arg.l[k])]
             IN  /\ \A k \in 1..AXIS_COUNT :
                        scaled[k] \in {(max_positions[k] * op.arg.l[k]) \div 100 - 1,
                                       (max_positions[k] * op.arg.l[k]) \div 100}
                 /\ result.t = "int"
                 /\ \A e \in Sent :
                        /\ events[e].function_code = WRITE_MULTIPLE_REGISTERS
                        /\ events[e].address = AXIS_POSITION_BASE
                        /\ PyList(events[e].values) =
                               _validate_and_clamp_positions(scaled, max_positions)
        ELSE InvalidArgument

\* After a calibration that read 10, 20, .., 60, six ratios of 0.5 scale to
\* 5, 10, .., 30, and 1, 10, 15, 20, 25, 30 are written.
C27_Witness ==
    /\ op.name = "set_all_positions_by_ratio"
    /\ op.arg.l = [k \in 1..AXIS_COUNT |-> 50]
    /\ max_positions = <<10, 20, 30, 40, 50, 60>>
    /\ Sent = {2}
    /\ events[2].values = <<1, 10, 15, 20, 25, 30>>
    /\ result = PyInt(SUCCESS)

\* The three cases of the clamp of position p under the maximum max.
ClampCases(max, p, clamped) ==
    /\ p > max - 10 => clamped = max - 10
    /\ p < 1 => clamped = 1
    /\ (1 <= p /\ p <= max - 10) => clamped = p

\* C26, for every maximum of at least 11: the clamp returns max - 10 when
\* p > max - 10, 1 when p < 1, and p when 1 <= p <= max - 10; for a maximum
\* of 10 or less, where 1..(max - 10) is empty, it returns 1 for every p.
\* (Checked under SpecCodec.)
C26_ClampCases ==
    (fn = "clamp" /\ Returned) =>
        /\ out.t = "list"
        /\ Len(out.l) = AXIS_COUNT
        /\ \A k \in 1..AXIS_COUNT :
            IF inp.maxima[k] >= 11
            THEN ClampCases(inp.maxima[k], inp.positions[k], out.l[k])
            ELSE out.l[k] = 1

\* Under the maximum 400, the positions 388..393 come back as 388, 389, 390,
\* 390, 390, 390, and 0 and 600 as 1 and 390.
C26_Witness ==
    /\ fn = "clamp"
    /\ inp.maxima = <<400, 400, 400, 400, 400, 400>>
    /\ inp.positions = <<388, 389, 390, 391, 392, 393>>
    /\ out = PyList(<<388, 389, 390, 390, 390, 390>>)

\* C26 as stated, for every maximum: the clamp returns max - 10 when
\* p > max - 10, 1 when p < 1, and p when 1 <= p <= max - 10.
C26_ClampCasesEveryMaximum ==
    (fn = "clamp" /\ Returned) =>
        /\ out.t = "list"
        /\ Len(out.l) = AXIS_COUNT
        /\ \A k \in 1..AXIS_COUNT :
            ClampCases(inp.maxima[k], inp.positions[k], out.l[k])

\* C28: max_positions changes only in the step in which
\* calibrate_max_positions returns SUCCESS, and then all six values are
\* replaced at once by the six registers of its position read; every other
\* step (reads, writes, clamps, open, close, a failed calibrate) leaves it
\* as it was.
C28_MaximaReplacedWholesale ==
    [][max_positions' # max_positions =>
        /\ pc = "polling" /\ pc' = "idle"
        /\ op'.name = "calibrate_max_positions"
        /\ result' = PyInt(SUCCESS)
        /\ op'.read.reply.k = "response"
        /\ Len(op'.read.reply.registers) = AXIS_COUNT
        /\ max_positions' = op'.read.reply.registers]_vars

\* After a calibration that read 10, 20, .., 60, a set_all_positions whose
\* request was written: the maxima are still 10, 20, .., 60.
C28_Witness ==
    /\ op.name = "set_all_positions"
    /\ Sent # {}
    /\ max_positions = <<10, 20, 30, 40, 50, 60>>

---------------------------------------------------------------------------
(* Claims about every public operation, checked under SpecOps.             *)

\* C30: every public operation that has completed has returned a result
\* value to its caller (a success value or an error code): none has ended
\* in an exception.
C30_ReturnsResult ==
    (op.name # "none" /\ pc = "idle") => result.t \in {"int", "list", "dict"}

---------------------------------------------------------------------------
(* Two callers on one session. The driver holds no lock and keeps no owner *)
(* (no method of DH5ModbusAPI takes one), and calibrate_max_positions      *)
(* sleeps between its requests (lines 310 and 320): a second thread of the *)
(* program that calls set_all_positions on the same object runs it while   *)
(* the first is inside calibrate_max_positions.                            *)

SecondCaller_set_all_positions ==
    /\ pc = "polling"
    /\ \E positions \in PositionLists :
        LET req == set_all_positions(positions)
        IN  \E bus \in (IF req.ok /\ is_connected THEN PublicOutcomes(req) ELSE {NoCall}) :
                LET r == complete(req, bus)
                IN  /\ events' = r.events
                    /\ wire' = wire_after(wire, r.events)
    /\ UNCHANGED <<client, max_positions, op, result, pc, codecVars>>

NextThreads ==
    \/ open_connection
    \/ close_connection
    \/ ConnectionLost
    \/ calibrate_max_positions
    \/ calibrate_poll
    \/ SecondCaller_set_all_positions

SpecThreads == Init /\ [][NextThreads]_vars

\* C29: while calibrate is between its initialization write and the storing
\* of the maxima, no request that writes target-position registers is sent
\* on the session.
C29_NoMotionDuringCalibration == pc = "polling" => PositionWrites = {}

---------------------------------------------------------------------------
(* Claims about register addresses, checked under SpecCodec.               *)

C35_ForceRegisterInForceBlock ==
    (fn = "per_axis" /\ Returned /\ inp.name = "set_axis_force" /\ inp.axis \in 1..6) =>
        /\ out.t = "int"
        /\ out.i \in AXIS_FORCE_BASE..(AXIS_FORCE_BASE + AXIS_COUNT - 1)
        /\ out.i \notin AXIS_POSITION_BASE..(AXIS_POSITION_BASE + AXIS_COUNT - 1)
        /\ out.i \notin AXIS_SPEED_BASE..(AXIS_SPEED_BASE + AXIS_COUNT - 1)
        /\ out.i \notin AXIS_ACCELERATION_BASE..(AXIS_ACCELERATION_BASE + AXIS_COUNT - 1)

---------------------------------------------------------------------------
(* Claims about the ownership of the transport, checked under Spec.        *)

\* C33: the session owns at most one open transport: no open_connection
\* leaves a transport open that the session no longer references, and
\* after close_connection the session references none.
C33_AtMostOneOpenTransport ==
    /\ op.name = "open_connection" => ~op.unclosed
    /\ op.name = "close_connection" => client = "none"

---------------------------------------------------------------------------
(* The session as a context manager: `with DH5ModbusAPI(...) as robot:`.   *)
(* Python calls __enter__, runs the body if __enter__ returned, and calls  *)
(* __exit__ when the body is left, by its end or by an exception.          *)

\* __enter__ (lines 814..819): open_connection, and ConnectionError unless
\* it returned SUCCESS.
__enter__ ==
    \E how \in {"connected", "refused", "raised"} :
        /\ pc = "idle"
        /\ client' = CASE how = "connected" -> "open"
                        [] how = "refused" -> "closed"
                        [] how = "raised" -> client
        /\ op' = [NoOp EXCEPT !.name = "__enter__", !.connected = is_connected,
                              !.unclosed = (how # "raised" /\ client = "open")]
        /\ events' = <<>>
        /\ result' = IF how = "connected" THEN PyStr("self") ELSE Raise("ConnectionError")
        /\ pc' = IF how = "connected" THEN "scope" ELSE "idle"
        /\ UNCHANGED <<max_positions, wire, codecVars>>

\* One operation of the body: get_axis_position or set_all_positions. An
\* exception it raises leaves the body.
ScopeBody ==
    /\ pc = "scope"
    /\ \E call \in {[name |-> "get_axis_position", axis |-> a, arg |-> PyNone,
                     req |-> get_axis_position(a)] : a \in AxisArgs}
               \cup {[name |-> "set_all_positions", axis |-> 0, arg |-> PyList(p),
                      req |-> set_all_positions(p)] : p \in PositionLists} :
        \E bus \in (IF call.req.ok /\ is_connected THEN PublicOutcomes(call.req)
                    ELSE {NoCall}) :
            LET r == complete(call.req, bus)
            IN  /\ op' = [NoOp EXCEPT !.name = call.name, !.connected = is_connected,
                                      !.axis = call.axis, !.arg = call.arg,
                                      !.bus = bus, !.wire = wire]
                /\ events' = r.events
                /\ result' = r.result
                /\ wire' = wire_after(wire, r.events)
                /\ pc' = IF r.result.t = "raise" THEN "leaving" ELSE "scope"
    /\ UNCHANGED <<client, max_positions, codecVars>>

\* A variant of __exit__ that closes only when the body ended normally.
exit_client_unless_raised(raised, c) == IF raised THEN c ELSE "none"

\* self.client after __exit__ (lines 821..823): close_connection, whether
\* or not an exception is passed in.
exit_client(raised, c) == "none"

\* __exit__ returns None, so an exception that left the body propagates
\* after the session is closed.
__exit__ ==
    /\ pc \in {"scope", "leaving"}
    /\ client' = exit_client(pc = "leaving", client)
    /\ op' = [NoOp EXCEPT !.name = "__exit__", !.connected = is_connected]
    /\ events' = <<>>
    /\ result' = IF pc = "leaving" THEN result ELSE PyNone
    /\ pc' = "idle"
    /\ UNCHANGED <<max_positions, wire, codecVars>>

\* The serial link drops while the body runs.
ConnectionLostInScope ==
    /\ pc = "scope"
    /\ ConnectionLost

NextScope ==
    \/ __enter__
    \/ ScopeBody
    \/ ConnectionLostInScope
    \/ __exit__

SpecScope == Init /\ [][NextScope]_vars

\* C32: a session used through the with statement is closed on every exit
\* path: once __exit__ has run, after the end of the body or after an
\* exception raised in it, the session holds no client; and when opening
\* fails in __enter__, the body is not entered and the session holds no
\* open client.
C32_ScopeClosesSession ==
    /\ op.name = "__exit__" => (client = "none" /\ pc = "idle")
    /\ (op.name = "__enter__" /\ result.t = "raise") => (client # "open" /\ pc = "idle")
    /\ pc = "idle" => client # "open"

\* The body raised ValueError on a connected session, and __exit__ closed it.
C32_Witness ==
    /\ op.name = "__exit__"
    /\ op.connected
    /\ result = Raise("ValueError")
    /\ client = "none"

\* The status word of the last poll of calibrate_max_positions, when the
\* device answered it with one.
PolledWord == op.poll.reply.registers[1]

PollAnswered ==
    /\ op.name = "calibrate_max_positions"
    /\ op.poll # NoCall
    /\ op.poll.reply.k = "response"
    /\ Len(op.poll.reply.registers) > 0

\* C34: check_initialization reports an axis "initialized" exactly when its
\* 2-bit field is INIT_STATUS_INITIALIZED, "initializing" exactly when it is
\* INIT_STATUS_INITIALIZING, and "not initialized" when it is
\* INIT_STATUS_NOT_INITIALIZED; and calibrate_max_positions leaves its
\* polling loop only on a status word whose six fields are all
\* INIT_STATUS_INITIALIZED.
C34_StatusMatchesConstants ==
    PollAnswered =>
        LET status == status_of(PyList(op.poll.reply.registers))
        IN  /\ \A k \in 1..AXIS_COUNT :
                LET field == axis_status(PolledWord, k - 1)
                IN  /\ status.l[k] = "initialized" <=> field = INIT_STATUS_INITIALIZED
                    /\ status.l[k] = "initializing" <=> field = INIT_STATUS_INITIALIZING
                    /\ field = INIT_STATUS_NOT_INITIALIZED => status.l[k] = "not initialized"
            /\ (pc = "idle" /\ op.read # NoCall) =>
                    \A k \in 1..AXIS_COUNT :
                        axis_status(PolledWord, k - 1) = INIT_STATUS_INITIALIZED

\* C36: calibrate_max_positions returns SUCCESS, having replaced
\* max_positions, only if its own initialization write was answered by the
\* device with a normal response; when that write failed (exception
\* response, transport error, nothing sent), it does not return SUCCESS.
C36_SuccessOnlyAfterInitWrite ==
    (CalibrateReturned /\ result = PyInt(SUCCESS)) =>
        /\ op.bus.sent
        /\ op.bus.reply.k = "response"

---------------------------------------------------------------------------
(* Claims about set_uart_config, checked under SpecCodec.                  *)

\* The session's current setting of the k-th UART register.
SessionSetting(k) ==
    <<DEFAULT_MODBUS_ID, DEFAULT_BAUD_RATE, DEFAULT_STOP_BITS, parity_code(inp.name)>>[k]

\* C37: set_uart_config writes four registers [unit address, baud, stop
\* bits, parity] in which every argument the caller supplied appears with
\* exactly the supplied value, the value 0 included, and only omitted
\* arguments take the session's current setting.
C37_ExplicitArgumentsWritten ==
    (fn = "uart" /\ Returned) =>
        /\ out.t = "list"
        /\ Len(out.l) = 4
        /\ \A k \in 1..4 :
              out.l[k] = IF inp.values[k] # -1 THEN inp.values[k] ELSE SessionSetting(k)

---------------------------------------------------------------------------
(* Claims about the command layer, checked under Spec.                     *)

\* The last call was send_modbus_command with a function code other than
\* 0x03, 0x06, 0x10, a write without data, or a single-register write of a
\* list.
MalformedCommand ==
    /\ op.name = "send_modbus_command"
    /\ \/ op.function_code \notin {READ_HOLDING_REGISTERS, WRITE_SINGLE_REGISTER,
                                   WRITE_MULTIPLE_REGISTERS}
       \/ /\ op.function_code \in {WRITE_SINGLE_REGISTER, WRITE_MULTIPLE_REGISTERS}
          /\ op.data.t = "none"
       \/ /\ op.function_code = WRITE_SINGLE_REGISTER
          /\ op.data.t = "list"

\* C38: a request that is malformed at the command layer is answered with
\* an error code, and the call neither writes a request to the transport
\* nor drains the receive buffer.
C38_MalformedRequestNotSent ==
    MalformedCommand =>
        /\ events = <<>>
        /\ result.t = "int"
        /\ result.i # SUCCESS
        /\ op.connected => result = PyInt(ERROR_INVALID_RESPONSE)

\* A single-register write of a list on a connected session.
C38_Witness ==
    /\ MalformedCommand
    /\ op.connected
    /\ op.function_code = WRITE_SINGLE_REGISTER
    /\ op.data.t = "list"
    /\ result = PyInt(ERROR_INVALID_RESPONSE)
    /\ events = <<>>

---------------------------------------------------------------------------
(* src/docs/dh5.py: the session of the early-revision driver. In the       *)
(* specification SpecEarly, client stands for self.serial_connection       *)
(* ("none": None, "open": is_open, "closed": not is_open), and pc is       *)
(* "looping" at the test of the while loop of set_speed or set_force and   *)
(* "checking" in its body; the loop index i is op.axis.                    *)

EARLY_SPEED_ADDRESS == 269      \* 0x010D
EARLY_FORCE_ADDRESS == 263      \* 0x0107

\* serial_connection.write(message)
Written(message) ==
    [e |-> "write", function_code |-> 0, address |-> 0, count |-> Len(message),
     values |-> message]

\* send_modbus_command of the early driver (lines 44..69): [events, result].
\* written: whether serial_connection.write returned. The name `response`
\* is read at line 66 without having been assigned, so the call ends in the
\* except clause after a write as well.
early_send_modbus_command(function_code, register_address, data, data_length, written) ==
    IF client # "open" THEN [events |-> <<>>, result |-> PyInt(ERROR_CONNECTION_FAILED)]
    ELSE IF function_code \notin {READ_HOLDING_REGISTERS, WRITE_SINGLE_REGISTER,
                                  WRITE_MULTIPLE_REGISTERS}
         THEN [events |-> <<>>, result |-> PyInt(ERROR_INVALID_COMMAND)]
    ELSE LET message ==
                 _build_request(DEFAULT_MODBUS_ID, function_code, register_address,
                     IF function_code = READ_HOLDING_REGISTERS
                     THEN (IF Truthy(data_length) THEN data_length ELSE PyInt(1))
                     ELSE IF function_code = WRITE_MULTIPLE_REGISTERS THEN data_length
                     ELSE PyInt(1),
                     IF function_code = WRITE_SINGLE_REGISTER THEN data ELSE PyNone,
                     IF function_code = WRITE_MULTIPLE_REGISTERS THEN data ELSE PyNone)
         IN  IF message.t = "raise" THEN [events |-> <<>>, result |-> PyStr("Error")]
             ELSE [events |-> IF written THEN <<Written(message.l)>> ELSE <<>>,
                   result |-> PyStr("Error")]

early_open_connection ==
    \E how \in {"opened", "raised"} :
        /\ pc = "idle"
        /\ client' = IF how = "opened" THEN "open" ELSE client
        /\ op' = [NoOp EXCEPT !.name = "open_connection", !.connected = (client = "open")]
        /\ events' = <<>>
        /\ result' = IF how = "opened" THEN PyInt(SUCCESS)
                     ELSE PyStr("Failed to open serial connection")
        /\ UNCHANGED <<max_positions, wire, pc, codecVars>>

early_close_connection ==
    /\ pc = "idle"
    /\ client' = IF client = "open" THEN "closed" ELSE client
    /\ op' = [NoOp EXCEPT !.name = "close_connection", !.connected = (client = "open")]
    /\ events' = <<>>
    /\ result' = IF client = "open" THEN PyInt(SUCCESS) ELSE PyNone
    /\ UNCHANGED <<max_positions, wire, pc, codecVars>>

early_send ==
    \E function_code \in FunctionCodes, data \in DataArgs, data_length \in LengthArgs,
       written \in BOOLEAN :
        LET r == early_send_modbus_command(function_code, AXIS_POSITION_BASE, data,
                                           data_length, written)
        IN  /\ pc = "idle"
            /\ op' = [NoOp EXCEPT !.name = "send_modbus_command",
                                  !.connected = (client = "open"),
                                  !.function_code = function_code,
                                  !.register_address = AXIS_POSITION_BASE,
                                  !.data = data, !.data_length = data_length]
            /\ events' = r.events
            /\ result' = r.result
            /\ UNCHANGED <<client, max_positions, wire, pc, codecVars>>

\* Arguments of set_speed and set_force: in range for both, the first
\* element out of range, a later element out of range, in the speed range
\* only, and of the wrong length.
EarlyLists ==
    {<<50, 50, 50, 50, 50, 50>>, <<0, 50, 50, 50, 50, 50>>, <<50, 0, 50, 50, 50, 50>>,
     <<50, 50, 50, 50, 50, 101>>, <<10, 10, 10, 10, 10, 10>>, <<100, 20, 50, 50, 50, 50>>,
     <<50, 50>>}

\* set_speed and set_force up to the while loop (lines 242..244, 257..260).
enter_loop(name, xs) ==
    /\ pc = "idle"
    /\ op' = [NoOp EXCEPT !.name = name, !.connected = (client = "open"),
                          !.arg = PyList(xs), !.axis = 0]
    /\ events' = <<>>
    /\ result' = IF Len(xs) # 6 THEN PyInt(ERROR_INVALID_COMMAND) ELSE Pending
    /\ pc' = IF Len(xs) # 6 THEN "idle" ELSE "looping"
    /\ UNCHANGED <<client, max_positions, wire, codecVars>>

set_speed == \E speed \in EarlyLists : enter_loop("set_speed", speed)

set_force == \E force \in EarlyLists : enter_loop("set_force", force)

\* The test of lines 246 and 262.
out_of_range(name, x) ==
    IF name = "set_speed" THEN x < 1 \/ x > 100 ELSE x < 20 \/ x > 100

\* The loop test `while i < len(...)` (lines 245, 261) and, when it fails,
\* the WriteMultipleRegisters request after the loop (lines 248..254,
\* 264..270).
while_test ==
    /\ pc = "looping"
    /\ IF op.axis < Len(op.arg.l)
       THEN /\ pc' = "checking"
            /\ UNCHANGED <<op, events, result>>
       ELSE \E written \in BOOLEAN :
               LET r == early_send_modbus_command(
                            WRITE_MULTIPLE_REGISTERS,
                            IF op.name = "set_speed" THEN EARLY_SPEED_ADDRESS
                            ELSE EARLY_FORCE_ADDRESS,
                            op.arg, PyInt(6), written)
               IN  /\ events' = r.events
                   /\ result' = r.result
                   /\ pc' = "idle"
                   /\ UNCHANGED op
    /\ UNCHANGED <<client, max_positions, wire, codecVars>>

\* The loop body (lines 246..247, 262..263): return ERROR_INVALID_COMMAND,
\* or back to the loop test with i as it was, since nothing assigns i.
range_check ==
    /\ pc = "checking"
    /\ IF out_of_range(op.name, op.arg.l[op.axis + 1])
       THEN /\ result' = PyInt(ERROR_INVALID_COMMAND)
            /\ pc' = "idle"
       ELSE /\ pc' = "looping"
            /\ UNCHANGED result
    /\ UNCHANGED <<client, max_positions, op, events, wire, codecVars>>

NextEarly ==
    \/ early_open_connection
    \/ early_close_connection
    \/ early_send
    \/ set_speed
    \/ set_force
    \/ while_test
    \/ range_check

\* Python runs the loop on; no step of it waits for anything.
SpecEarly == Init /\ [][NextEarly]_vars /\ WF_vars(while_test) /\ WF_vars(range_check)

\* C39: set_speed and set_force of the early driver terminate for every
\* 6-element input: a call that has reached the range-check loop returns.
C39_SetSpeedForceTerminate == (pc = "looping") ~> (pc = "idle")

====
